---- MODULE Spec2Model ----
(***************************************************************************)
(* The single-slot buffer hand-off of embedded-audio: the Slot of          *)
(* embedded-audio/src/databus/slot.rs (variant "databus") and the older    *)
(* Slot of embedded-audio-driver/src/slot.rs (variant "driver"), with the  *)
(* Payload guard of embedded-audio-driver/src/payload.rs.                  *)
(*                                                                         *)
(* One producer task and one consumer task run concurrently.  Every shared *)
(* memory access of acquire_read, acquire_write and release is one step:   *)
(* the compare-exchange, the waker registration, the wake, the read and    *)
(* the write of Option::take, the state store.                             *)
(***************************************************************************)
EXTENDS Integers, Sequences, FiniteSets, TLC

(* ------------------------------ bounds -------------------------------- *)
\* largest buffer capacity handed to Slot::new / set_buffer
MaxCap == 1
\* acquisitions issued by each task
MaxCycles == 2
\* largest buffer capacity in the rebinding scenario
MaxRebindCap == 2
\* largest data section of a WAV file, in bytes
MaxData == 3
\* largest total_samples of a finite sine stream
MaxTotal == 2
\* largest buffer capacity of the Slot in the decoder-to-sink scenario
MaxStreamCap == 2
\* largest data section of a WAV file in the decoder-to-sink scenario
MaxStreamData == 2
\* chunks a source stage emits
MaxEmit == 4
\* largest buffer capacity of the Slot behind the sine generator on its own
MaxSineCap == 4
\* largest buffer capacity of the Slot in front of the encoder
MaxEncCap == 3
\* process calls of the encoder that write audio data
MaxEncWrites == 2

(* --------------------------- constants of the code --------------------- *)
\* let mut header_buf = [0u8; 44]
HeaderLen == 44
\* let mut data_chunk_pos = 36
DataChunkPos == 36
\* let min_frames = 256
MinFrames == 256
\* the minimum payload size when the format is not known yet
DefaultMinPayload == 512
\* const FIXED_POINT_ONE: FixedGain = 1 << FIXED_POINT_SHIFT
FIXED_POINT_ONE == 65536

(* ------------------ the scenario of the concurrency test --------------- *)
\* Box::new([0u8; 8])
TestCap == 8
\* payload.set_valid_length(3)
TestValidLength == 3
TestData == <<10, 20, 30>>

(* ------------------------------- types -------------------------------- *)
\* Option<T>: None is the empty sequence, Some(x) the one-element sequence.
None == <<>>
Some(x) == <<x>>
IsSome(o) == o # None
Unwrap(o) == o[1]

State == {"Empty", "Reading", "Writing", "Full", "NoneBuffer"}
Position == {"Single", "First", "Last", "Middle"}

Metadata_new(position, valid_length) ==
    [position |-> position, valid_length |-> valid_length]

\* Metadata::default(), used by unwrap_or_default() in new_payload.
DefaultMetadata == Metadata_new("Single", 0)

Payload_new(data, metadata, is_write) ==
    [data |-> data, metadata |-> metadata, is_write |-> is_write]

Producers == {"producer"}
Consumers == {"consumer"}
Tasks == Producers \cup Consumers
\* a second task that calls acquire_write on the same Slot; it takes steps
\* only where two producers share the Slot
CrowdProducers == Producers \cup {"producer2"}
AllTasks == CrowdProducers \cup Consumers

\* the byte values a holder writes
Bytes == {0, 1}
Caps == 1..MaxCap
Zeros(n) == [i \in 1..n |-> 0]
\* the buffers a caller hands to Slot::new and set_buffer
Buffers == {None} \cup {Some(Zeros(n)) : n \in Caps}

Min(a, b) == IF a <= b THEN a ELSE b

VARIABLES
    variant,           \* which Slot implementation: "databus" or "driver"
    state,             \* SharedState.state
    buffer,            \* Slot.buffer : Option<&mut [u8]>
    payload_metadata,  \* Slot.payload_metadata : Option<Metadata>
    consumer_waker,    \* SharedState.consumer_waker / in_port_waker
    producer_waker,    \* SharedState.producer_waker / out_port_waker
    pc,                \* where each task is
    payload,           \* the Payload each task holds : Option<Payload>
    local,             \* each task's locals inside new_payload / release
    notified,          \* the executor's wake flag of each task
    cycles,            \* acquisitions issued by each task
    panic,             \* "none", or the message of the panic that ended the run
    exited,            \* how the scope holding the Payload was left
    log,               \* history: the grants and releases, in order
    lastWritten,       \* history: what the last write Payload held when dropped
    capacity,          \* history: length of the buffer bound to the Slot
    src,               \* the source stage of the pipeline: "wav" or "sine"
    reader,            \* the WAV file behind the decoder's in_port
    wav,               \* WavDecoder
    sine,              \* SineWaveGenerator
    gain,              \* Gain
    cpal,              \* CpalOutputStream
    ret,               \* history: the last call on a stage and what it returned
    emitted,           \* history: the position tags of the chunks the source released
    sent,              \* history: the byte count of each chunk a stage passed on
    enc,               \* WavEncoder
    writer,            \* the MockWriter behind the encoder's out_port
    phase              \* history: the lifecycle phase of each stage

slotVars == <<state, buffer, payload_metadata, consumer_waker, producer_waker>>
taskVars == <<pc, payload, local, notified, cycles, exited>>
histVars == <<log, lastWritten, capacity>>
stageVars == <<src, reader, wav, sine, gain, cpal, ret, emitted, sent, phase,
               enc, writer>>
vars == <<variant, slotVars, taskVars, panic, histVars, stageVars>>

NoLocal == [buf |-> None, meta |-> None, is_write |-> FALSE]

(* --------------------------- construction ----------------------------- *)
\* a Slot on its own: no stage is connected to it
NoStages ==
    /\ src = None
    /\ reader = None
    /\ wav = None
    /\ sine = None
    /\ gain = None
    /\ cpal = None
    /\ ret = None
    /\ emitted = <<>>
    /\ sent = <<>>
    /\ phase = None
    /\ enc = None
    /\ writer = None

\* databus Slot::new: Empty when a buffer is given, NoneBuffer otherwise
Slot_new_state(b) == IF IsSome(b) THEN "Empty" ELSE "NoneBuffer"

\* driver Slot::new: Empty in both branches
DriverSlot_new_state(b) == IF IsSome(b) THEN "Empty" ELSE "Empty"

InitTasks ==
    /\ pc = [t \in AllTasks |-> "idle"]
    /\ payload = [t \in AllTasks |-> None]
    /\ local = [t \in AllTasks |-> NoLocal]
    /\ notified = [t \in AllTasks |-> FALSE]
    /\ cycles = [t \in AllTasks |-> 0]
    /\ exited = [t \in AllTasks |-> "none"]
    /\ panic = "none"
    /\ log = <<>>
    /\ lastWritten = None

Init ==
    /\ variant \in {"databus", "driver"}
    /\ buffer \in Buffers
    /\ state = IF variant = "databus" THEN Slot_new_state(buffer)
               ELSE DriverSlot_new_state(buffer)
    /\ payload_metadata = None
    /\ consumer_waker = None
    /\ producer_waker = None
    /\ capacity = IF IsSome(buffer) THEN Len(Unwrap(buffer)) ELSE 0
    /\ InitTasks
    /\ NoStages


(* ------------------ embassy_sync::waitqueue::AtomicWaker --------------- *)
\* a cell that keeps the waker it holds when another task registers
AtomicWaker_register_KeepFirst(w, t) == IF IsSome(w) THEN w ELSE Some(t)

\* register(cx.waker()) on a cell holding w: the cell then holds the waker
\* of the registering task, whatever it held
AtomicWaker_register(w, t) == Some(t)

\* wake(): wakes the registered waker, if any; the result is the executor's
\* wake flags afterwards
AtomicWaker_wake(w) ==
    IF IsSome(w) THEN [notified EXCEPT ![Unwrap(w)] = TRUE] ELSE notified

(* ------------------------- the calling tasks --------------------------- *)
\* a task calls acquire_read / acquire_write (InPort::acquire /
\* OutPort::acquire) and its future is polled for the first time
acquire_call(t, max) ==
    /\ panic = "none"
    /\ pc[t] = "idle"
    /\ cycles[t] < max
    /\ pc' = [pc EXCEPT ![t] = "poll"]
    /\ cycles' = [cycles EXCEPT ![t] = @ + 1]
    /\ UNCHANGED <<variant, stageVars, slotVars, payload, local, notified, exited,
                   panic, histVars>>

\* the executor polls a parked task again once its waker has been woken
executor_poll(t) ==
    /\ panic = "none"
    /\ pc[t] = "pending"
    /\ notified[t]
    /\ pc' = [pc EXCEPT ![t] = "poll"]
    /\ notified' = [notified EXCEPT ![t] = FALSE]
    /\ UNCHANGED <<variant, stageVars, slotVars, payload, local, cycles, exited,
                   panic, histVars>>

\* an exchange that stores new also when the state is not current
compare_exchange_Store(t, current, new, okpc, event) ==
    /\ panic = "none"
    /\ pc[t] = "poll"
    /\ state' = new
    /\ IF state = current
       THEN /\ pc' = [pc EXCEPT ![t] = okpc]
            /\ log' = Append(log, event)
       ELSE /\ pc' = [pc EXCEPT ![t] = "register"]
            /\ log' = log
    /\ UNCHANGED <<variant, stageVars, buffer, payload_metadata, consumer_waker,
                   producer_waker, payload, local, notified, cycles, exited,
                   panic, lastWritten, capacity>>

\* state.compare_exchange(current, new, Acquire, Relaxed) inside a poll:
\* on success the poll goes on at okpc, on failure to the registration
compare_exchange(t, current, new, okpc, event) ==
    /\ panic = "none"
    /\ pc[t] = "poll"
    /\ IF state = current
       THEN /\ state' = new
            /\ pc' = [pc EXCEPT ![t] = okpc]
            /\ log' = Append(log, event)
       ELSE /\ state' = state
            /\ pc' = [pc EXCEPT ![t] = "register"]
            /\ log' = log
    /\ UNCHANGED <<variant, stageVars, buffer, payload_metadata, consumer_waker,
                   producer_waker, payload, local, notified, cycles, exited,
                   panic, lastWritten, capacity>>

(* ---------------- databus Slot: acquire_read / acquire_write ----------- *)
Slot_acquire_read_cas_Writing(t) ==
    /\ variant = "databus"
    /\ compare_exchange(t, "Writing", "Reading", "wake", "acquire_read")

Slot_acquire_read_cas_Empty(t) ==
    /\ variant = "databus"
    /\ compare_exchange(t, "Empty", "Reading", "wake", "acquire_read")

Slot_acquire_read_cas(t) ==
    /\ variant = "databus"
    /\ compare_exchange(t, "Full", "Reading", "wake", "acquire_read")

Slot_acquire_read_wake(t) ==
    /\ variant = "databus"
    /\ panic = "none"
    /\ pc[t] = "wake"
    /\ notified' = AtomicWaker_wake(producer_waker)
    /\ pc' = [pc EXCEPT ![t] = "take"]
    /\ UNCHANGED <<variant, stageVars, slotVars, payload, local, cycles, exited,
                   panic, histVars>>

Slot_acquire_read_register(t) ==
    /\ variant = "databus"
    /\ panic = "none"
    /\ pc[t] = "register"
    /\ consumer_waker' = AtomicWaker_register(consumer_waker, t)
    /\ pc' = [pc EXCEPT ![t] = "pending"]
    /\ UNCHANGED <<variant, stageVars, state, buffer, payload_metadata, producer_waker,
                   payload, local, notified, cycles, exited, panic,
                   histVars>>

Slot_acquire_write_cas_Overwrite(t) ==
    /\ variant = "databus"
    /\ \/ /\ state # "Full"
          /\ compare_exchange(t, "Empty", "Writing", "wake", "acquire_write")
       \/ /\ state = "Full"
          /\ compare_exchange(t, "Full", "Writing", "wake", "acquire_write")

Slot_acquire_write_cas(t) ==
    /\ variant = "databus"
    /\ compare_exchange(t, "Empty", "Writing", "wake", "acquire_write")

Slot_acquire_write_wake(t) ==
    /\ variant = "databus"
    /\ panic = "none"
    /\ pc[t] = "wake"
    /\ notified' = AtomicWaker_wake(consumer_waker)
    /\ pc' = [pc EXCEPT ![t] = "take"]
    /\ UNCHANGED <<variant, stageVars, slotVars, payload, local, cycles, exited,
                   panic, histVars>>

Slot_acquire_write_register(t) ==
    /\ variant = "databus"
    /\ panic = "none"
    /\ pc[t] = "register"
    /\ producer_waker' = AtomicWaker_register(producer_waker, t)
    /\ pc' = [pc EXCEPT ![t] = "pending"]
    /\ UNCHANGED <<variant, stageVars, state, buffer, payload_metadata, consumer_waker,
                   payload, local, notified, cycles, exited, panic,
                   histVars>>

unwrap_or_default_Always(m) == DefaultMetadata

\* unwrap_or_default() of the metadata taken out of the Slot
unwrap_or_default(m) == IF IsSome(m) THEN Unwrap(m) ELSE DefaultMetadata

\* new_payload, first half: Option::take reads the two cells
Slot_new_payload_take(t, is_write) ==
    /\ variant = "databus"
    /\ panic = "none"
    /\ pc[t] = "take"
    /\ local' = [local EXCEPT ![t] =
                    [buf |-> buffer, meta |-> payload_metadata,
                     is_write |-> is_write]]
    /\ pc' = [pc EXCEPT ![t] = "build"]
    /\ UNCHANGED <<variant, stageVars, slotVars, payload, notified, cycles, exited,
                   panic, histVars>>

\* new_payload, second half: Option::take leaves None in the two cells,
\* unwrap() panics on None, Payload::new builds the guard
Slot_new_payload_build(t) ==
    /\ variant = "databus"
    /\ panic = "none"
    /\ pc[t] = "build"
    /\ buffer' = None
    /\ payload_metadata' = None
    /\ IF IsSome(local[t].buf)
       THEN /\ payload' = [payload EXCEPT ![t] =
                  Some(Payload_new(Unwrap(local[t].buf),
                                   unwrap_or_default(local[t].meta),
                                   local[t].is_write))]
            /\ pc' = [pc EXCEPT ![t] = "hold"]
            /\ panic' = panic
       ELSE /\ payload' = payload
            /\ pc' = [pc EXCEPT ![t] = "panicked"]
            /\ panic' = "called Option::unwrap() on a None value"
    /\ local' = [local EXCEPT ![t] = NoLocal]
    /\ lastWritten' = IF local[t].is_write THEN lastWritten ELSE None
    /\ UNCHANGED <<variant, stageVars, state, consumer_waker, producer_waker, notified,
                   cycles, exited, log, capacity>>


(* ----------------------- Payload (payload.rs) -------------------------- *)
\* DerefMut: the holder writes one byte of the buffer it holds
Payload_deref_mut(t, i, b) ==
    /\ panic = "none"
    /\ pc[t] = "hold"
    /\ i \in 1..Len(Unwrap(payload[t]).data)
    /\ payload' = [payload EXCEPT ![t] =
                      Some([Unwrap(@) EXCEPT !.data[i] = b])]
    /\ UNCHANGED <<variant, stageVars, slotVars, pc, local, notified, cycles, exited,
                   panic, histVars>>

clamp_valid_length_NoClamp(length, data) == length

\* the value set_valid_length stores: length.min(self.data.len())
clamp_valid_length(length, data) == Min(length, Len(data))

Payload_set_valid_length(t, length) ==
    /\ variant = "databus"
    /\ panic = "none"
    /\ pc[t] = "hold"
    /\ payload' = [payload EXCEPT ![t] =
          Some([Unwrap(@) EXCEPT !.metadata.valid_length =
                   clamp_valid_length(length, Unwrap(payload[t]).data)])]
    /\ UNCHANGED <<variant, stageVars, slotVars, pc, local, notified, cycles, exited,
                   panic, histVars>>

Payload_set_position(t, position) ==
    /\ variant = "databus"
    /\ panic = "none"
    /\ pc[t] = "hold"
    /\ payload' = [payload EXCEPT ![t] =
          Some([Unwrap(@) EXCEPT !.metadata.position = position])]
    /\ UNCHANGED <<variant, stageVars, slotVars, pc, local, notified, cycles, exited,
                   panic, histVars>>

\* the ways a scope holding a Payload is left; Drop runs on each of them
ExitKinds == {"normal", "early_return", "error"}

\* Drop: mem::replace moves the buffer out of the guard, which then hands
\* buffer, metadata and is_write to the release that follows
drop_guard(t, exit) ==
    /\ panic = "none"
    /\ pc[t] \in {"hold", "test_done"}
    /\ local' = [local EXCEPT ![t] =
                    [buf |-> Some(Unwrap(payload[t]).data),
                     meta |-> Some(Unwrap(payload[t]).metadata),
                     is_write |-> Unwrap(payload[t]).is_write]]
    /\ payload' = [payload EXCEPT ![t] = None]
    /\ pc' = [pc EXCEPT ![t] = "restore"]
    /\ exited' = [exited EXCEPT ![t] = exit]
    /\ lastWritten' = IF Unwrap(payload[t]).is_write
                      THEN Some([data |-> Unwrap(payload[t]).data,
                                 metadata |-> Unwrap(payload[t]).metadata])
                      ELSE lastWritten
    /\ UNCHANGED <<variant, stageVars, slotVars, notified, cycles, panic, log,
                   capacity>>

\* Drop for Payload
Payload_drop(t, exit) ==
    /\ variant = "databus"
    /\ drop_guard(t, exit)

(* ----------------------- databus Slot: release ------------------------- *)
\* *self.buffer.get() = Some(buf); *self.payload_metadata.get() = Some(metadata)
Slot_release_restore(t) ==
    /\ variant = "databus"
    /\ panic = "none"
    /\ pc[t] = "restore"
    /\ buffer' = local[t].buf
    /\ payload_metadata' = local[t].meta
    /\ pc' = [pc EXCEPT ![t] = "store"]
    /\ UNCHANGED <<variant, stageVars, state, consumer_waker, producer_waker, payload,
                   local, notified, cycles, exited, panic, histVars>>

\* a release that stores Full whatever the Payload was
release_state_AlwaysFull(is_write) == "Full"

\* the state a release stores
release_state(is_write) == IF is_write THEN "Full" ELSE "Empty"

Slot_release_store_WriteOnly(t) ==
    /\ variant = "databus"
    /\ panic = "none"
    /\ pc[t] = "store"
    /\ state' = IF local[t].is_write THEN "Full" ELSE state
    /\ log' = Append(log, IF local[t].is_write THEN "release_write"
                          ELSE "release_read")
    /\ pc' = [pc EXCEPT ![t] = "release_wake"]
    /\ UNCHANGED <<variant, stageVars, buffer, payload_metadata, consumer_waker,
                   producer_waker, payload, local, notified, cycles, exited,
                   panic, lastWritten, capacity>>

\* self.shared.state.store(Full | Empty, Ordering::Release)
Slot_release_store(t) ==
    /\ variant = "databus"
    /\ panic = "none"
    /\ pc[t] = "store"
    /\ state' = release_state(local[t].is_write)
    /\ log' = Append(log, IF local[t].is_write THEN "release_write"
                          ELSE "release_read")
    /\ pc' = [pc EXCEPT ![t] = "release_wake"]
    /\ UNCHANGED <<variant, stageVars, buffer, payload_metadata, consumer_waker,
                   producer_waker, payload, local, notified, cycles, exited,
                   panic, lastWritten, capacity>>

\* consumer_waker.wake() after a write, producer_waker.wake() after a read;
\* release returns and the drop is over
Slot_release_wake(t) ==
    /\ variant = "databus"
    /\ panic = "none"
    /\ pc[t] = "release_wake"
    /\ notified' = AtomicWaker_wake(IF local[t].is_write THEN consumer_waker
                                    ELSE producer_waker)
    /\ pc' = [pc EXCEPT ![t] = "idle"]
    /\ local' = [local EXCEPT ![t] = NoLocal]
    /\ exited' = [exited EXCEPT ![t] = "none"]
    /\ UNCHANGED <<variant, stageVars, slotVars, payload, cycles, panic,
                   histVars>>

(* ----------------------- databus Slot: set_buffer ---------------------- *)
\* set_buffer takes &mut self: no poll is in progress and no Payload is out
set_buffer_callable ==
    /\ panic = "none"
    /\ \A t \in AllTasks : pc[t] \in {"idle", "pending"}

Slot_set_buffer(b) ==
    /\ variant = "databus"
    /\ set_buffer_callable
    /\ IF state # "Empty"
       THEN /\ panic' = "Cannot set buffer when slot is not empty"
            /\ UNCHANGED <<buffer, state, capacity, notified>>
       ELSE /\ buffer' = b
            /\ state' = Slot_new_state(b)
            /\ capacity' = IF IsSome(b) THEN Len(Unwrap(b)) ELSE 0
            /\ notified' = IF Slot_new_state(b) = "Empty"
                           THEN AtomicWaker_wake(producer_waker) ELSE notified
            /\ panic' = panic
    /\ UNCHANGED <<variant, stageVars, payload_metadata, consumer_waker, producer_waker,
                   pc, payload, local, cycles, exited, log, lastWritten>>


(* ------------- driver Slot: InPort / OutPort / InPayload / OutPayload --- *)
\* the poll of InPort::acquire and of OutPort::acquire after the
\* compare-exchange: take the buffer (expect), wake the peer, build the
\* guard; or register the waker and return Pending
driver_acquire_steps(t, is_write, peer_waker, message) ==
    /\ variant = "driver"
    /\ panic = "none"
    /\ \/ /\ pc[t] = "take"
          /\ local' = [local EXCEPT ![t] =
                          [buf |-> buffer, meta |-> None,
                           is_write |-> is_write]]
          /\ pc' = [pc EXCEPT ![t] = "build"]
          /\ UNCHANGED <<slotVars, payload, notified, panic, lastWritten>>
       \/ /\ pc[t] = "build"
          /\ buffer' = None
          /\ IF IsSome(local[t].buf)
             THEN /\ pc' = [pc EXCEPT ![t] = "wake"]
                  /\ panic' = panic
             ELSE /\ pc' = [pc EXCEPT ![t] = "panicked"]
                  /\ panic' = message
          /\ UNCHANGED <<state, payload_metadata, consumer_waker,
                         producer_waker, payload, local, notified,
                         lastWritten>>
       \/ /\ pc[t] = "wake"
          /\ notified' = AtomicWaker_wake(peer_waker)
          /\ payload' = [payload EXCEPT ![t] =
                Some(Payload_new(Unwrap(local[t].buf), DefaultMetadata,
                                 is_write))]
          /\ local' = [local EXCEPT ![t] = NoLocal]
          /\ lastWritten' = IF is_write THEN lastWritten ELSE None
          /\ pc' = [pc EXCEPT ![t] = "hold"]
          /\ UNCHANGED <<slotVars, panic>>
    /\ UNCHANGED <<variant, stageVars, cycles, exited, log, capacity>>

InPort_acquire(t) ==
    \/ /\ variant = "driver"
       /\ compare_exchange(t, "Full", "Reading", "take", "acquire_read")
    \/ driver_acquire_steps(t, FALSE, producer_waker,
                            "Bug: Slot was in Full state but buffer was None")
    \/ /\ variant = "driver"
       /\ panic = "none"
       /\ pc[t] = "register"
       /\ consumer_waker' = AtomicWaker_register(consumer_waker, t)
       /\ pc' = [pc EXCEPT ![t] = "pending"]
       /\ UNCHANGED <<variant, stageVars, state, buffer, payload_metadata,
                      producer_waker, payload, local, notified, cycles,
                      exited, panic, histVars>>

OutPort_acquire(t) ==
    \/ /\ variant = "driver"
       /\ compare_exchange(t, "Empty", "Writing", "take", "acquire_write")
    \/ driver_acquire_steps(t, TRUE, consumer_waker,
                            "Bug: Slot was in Empty state but buffer was None")
    \/ /\ variant = "driver"
       /\ panic = "none"
       /\ pc[t] = "register"
       /\ producer_waker' = AtomicWaker_register(producer_waker, t)
       /\ pc' = [pc EXCEPT ![t] = "pending"]
       /\ UNCHANGED <<variant, stageVars, state, buffer, payload_metadata,
                      consumer_waker, payload, local, notified, cycles,
                      exited, panic, histVars>>

\* the body of Drop for InPayload and for OutPayload after mem::replace:
\* buffer.replace(buffer), state.store(new), peer waker wake()
driver_drop_steps(t, new, peer_waker, event) ==
    /\ variant = "driver"
    /\ panic = "none"
    /\ \/ /\ pc[t] = "restore"
          /\ buffer' = local[t].buf
          /\ pc' = [pc EXCEPT ![t] = "store"]
          /\ UNCHANGED <<state, local, notified, exited, log>>
       \/ /\ pc[t] = "store"
          /\ state' = new
          /\ log' = Append(log, event)
          /\ pc' = [pc EXCEPT ![t] = "release_wake"]
          /\ UNCHANGED <<buffer, local, notified, exited>>
       \/ /\ pc[t] = "release_wake"
          /\ notified' = AtomicWaker_wake(peer_waker)
          /\ pc' = [pc EXCEPT ![t] = "idle"]
          /\ local' = [local EXCEPT ![t] = NoLocal]
          /\ exited' = [exited EXCEPT ![t] = "none"]
          /\ UNCHANGED <<state, buffer, log>>
    /\ UNCHANGED <<variant, stageVars, payload_metadata, consumer_waker, producer_waker,
                   payload, cycles, panic, lastWritten, capacity>>

InPayload_drop(t, exit) ==
    \/ /\ variant = "driver"
       /\ drop_guard(t, exit)
    \/ driver_drop_steps(t, "Empty", producer_waker, "release_read")

OutPayload_drop(t, exit) ==
    \/ /\ variant = "driver"
       /\ drop_guard(t, exit)
    \/ driver_drop_steps(t, "Full", consumer_waker, "release_write")

\* driver Slot::set_buffer: no check of the state, Empty in both branches
DriverSlot_set_buffer(b) ==
    /\ variant = "driver"
    /\ set_buffer_callable
    /\ buffer' = b
    /\ state' = IF IsSome(b) THEN "Empty" ELSE "Empty"
    /\ capacity' = IF IsSome(b) THEN Len(Unwrap(b)) ELSE 0
    /\ UNCHANGED <<variant, stageVars, payload_metadata, consumer_waker, producer_waker,
                   taskVars, panic, log, lastWritten>>

(* --------------------------- specification ----------------------------- *)
Slot_acquire_read(t) ==
    \/ Slot_acquire_read_cas(t)
    \/ Slot_acquire_read_wake(t)
    \/ Slot_new_payload_take(t, FALSE)
    \/ Slot_new_payload_build(t)
    \/ Slot_acquire_read_register(t)

Slot_acquire_write(t) ==
    \/ Slot_acquire_write_cas(t)
    \/ Slot_acquire_write_wake(t)
    \/ Slot_new_payload_take(t, TRUE)
    \/ Slot_new_payload_build(t)
    \/ Slot_acquire_write_register(t)

Slot_release(t) ==
    \/ Slot_release_restore(t)
    \/ Slot_release_store(t)
    \/ Slot_release_wake(t)

\* what a task does with the Payload it holds
holder_step(t) ==
    \/ \E i \in Caps, b \in Bytes : Payload_deref_mut(t, i, b)
    \/ \E n \in 0..(MaxCap + 1) : Payload_set_valid_length(t, n)
    \/ \E p \in Position : Payload_set_position(t, p)

\* the steps of the two tasks
TaskNext ==
    \/ \E t \in Tasks : acquire_call(t, MaxCycles)
    \/ \E t \in Tasks : executor_poll(t)
    \/ \E t \in Consumers : Slot_acquire_read(t)
    \/ \E t \in Producers : Slot_acquire_write(t)
    \/ \E t \in Producers : holder_step(t)
    \/ \E t \in Tasks, exit \in ExitKinds : Payload_drop(t, exit)
    \/ \E t \in Tasks : Slot_release(t)
    \/ \E t \in Consumers : InPort_acquire(t)
    \/ \E t \in Producers : OutPort_acquire(t)
    \/ \E t \in Consumers, exit \in ExitKinds : InPayload_drop(t, exit)
    \/ \E t \in Producers, exit \in ExitKinds : OutPayload_drop(t, exit)

Next ==
    \/ TaskNext
    \/ \E b \in Buffers : Slot_set_buffer(b)
    \/ \E b \in Buffers : DriverSlot_set_buffer(b)

Spec == Init /\ [][Next]_vars


(* ------- fair scheduling: a task that can take a step takes it --------- *)
\* every step of a task except issuing a new call and touching the bytes
\* it holds: the executor polls a woken task, a poll runs to its end, a
\* held Payload goes out of scope, a release runs to its end
task_progress(t) ==
    \/ executor_poll(t)
    \/ Slot_acquire_read(t) /\ t \in Consumers
    \/ Slot_acquire_write(t) /\ t \in Producers
    \/ \E exit \in ExitKinds : Payload_drop(t, exit)
    \/ Slot_release(t)
    \/ InPort_acquire(t) /\ t \in Consumers
    \/ OutPort_acquire(t) /\ t \in Producers
    \/ \E exit \in ExitKinds : InPayload_drop(t, exit) /\ t \in Consumers
    \/ \E exit \in ExitKinds : OutPayload_drop(t, exit) /\ t \in Producers

FairSpec ==
    /\ Init
    /\ [][TaskNext]_vars
    /\ \A t \in Tasks : WF_vars(task_progress(t))

(* ---------- test_concurrent_producer_consumer (slot.rs 270-312) -------- *)
TestInit ==
    /\ variant = "databus"
    /\ buffer = Some(Zeros(TestCap))
    /\ state = Slot_new_state(buffer)
    /\ payload_metadata = None
    /\ consumer_waker = None
    /\ producer_waker = None
    /\ capacity = TestCap
    /\ InitTasks
    /\ NoStages

\* payload.data[0..3].copy_from_slice(&[10, 20, 30])
test_producer_copy(t) ==
    /\ panic = "none"
    /\ pc[t] = "hold"
    /\ payload' = [payload EXCEPT ![t] =
          Some([Unwrap(@) EXCEPT !.data =
                   [i \in 1..Len(@) |->
                       IF i <= Len(TestData) THEN TestData[i] ELSE @[i]]])]
    /\ pc' = [pc EXCEPT ![t] = "test_len"]
    /\ UNCHANGED <<variant, stageVars, slotVars, local, notified, cycles, exited,
                   panic, histVars>>

\* payload.set_valid_length(3)
test_producer_set_valid_length(t) ==
    /\ panic = "none"
    /\ pc[t] = "test_len"
    /\ payload' = [payload EXCEPT ![t] =
          Some([Unwrap(@) EXCEPT !.metadata.valid_length =
                   clamp_valid_length(TestValidLength,
                                      Unwrap(payload[t]).data)])]
    /\ pc' = [pc EXCEPT ![t] = "test_pos"]
    /\ UNCHANGED <<variant, stageVars, slotVars, local, notified, cycles, exited,
                   panic, histVars>>

\* payload.set_position(Position::Single)
test_producer_set_position(t) ==
    /\ panic = "none"
    /\ pc[t] = "test_pos"
    /\ payload' = [payload EXCEPT ![t] =
          Some([Unwrap(@) EXCEPT !.metadata.position = "Single"])]
    /\ pc' = [pc EXCEPT ![t] = "test_done"]
    /\ UNCHANGED <<variant, stageVars, slotVars, local, notified, cycles, exited,
                   panic, histVars>>

TestNext ==
    \/ \E t \in Tasks : acquire_call(t, 1)
    \/ \E t \in Tasks : executor_poll(t)
    \/ \E t \in Consumers : Slot_acquire_read(t)
    \/ \E t \in Producers : Slot_acquire_write_cas(t)
    \/ \E t \in Producers : Slot_acquire_write_wake(t)
    \/ \E t \in Producers : Slot_new_payload_take(t, TRUE)
    \/ \E t \in Producers : Slot_new_payload_build(t)
    \/ \E t \in Producers : test_producer_copy(t)
    \/ \E t \in Producers : test_producer_set_valid_length(t)
    \/ \E t \in Producers : test_producer_set_position(t)
    \/ \E t \in Producers : pc[t] = "test_done" /\ Payload_drop(t, "normal")
    \/ \E t \in Consumers : pc[t] = "hold" /\ Payload_drop(t, "normal")
    \/ \E t \in Tasks : Slot_release(t)

TestSpec == TestInit /\ [][TestNext]_vars

(* ---- rebinding: set_buffer between the cycles of a databus Slot ------- *)
\* the buffers of different capacities handed to Slot::new and set_buffer
RebindBuffers == {Some(Zeros(n)) : n \in 1..MaxRebindCap}

RebindInit ==
    /\ variant = "databus"
    /\ buffer \in RebindBuffers
    /\ state = Slot_new_state(buffer)
    /\ payload_metadata = None
    /\ consumer_waker = None
    /\ producer_waker = None
    /\ capacity = Len(Unwrap(buffer))
    /\ InitTasks
    /\ NoStages

RebindNext ==
    \/ \E t \in Tasks : acquire_call(t, MaxCycles)
    \/ \E t \in Tasks : executor_poll(t)
    \/ \E t \in Consumers : Slot_acquire_read(t)
    \/ \E t \in Producers : Slot_acquire_write(t)
    \/ \E t \in Producers, n \in 0..(MaxRebindCap + 1) :
          Payload_set_valid_length(t, n)
    \/ \E t \in Tasks : Payload_drop(t, "normal")
    \/ \E t \in Tasks : Slot_release(t)
    \/ \E b \in RebindBuffers : Slot_set_buffer(b)

RebindSpec == RebindInit /\ [][RebindNext]_vars


(* ======================= the stages of a pipeline ====================== *)
(* A source stage (WavDecoder or SineWaveGenerator) writes into the        *)
(* databus Slot, Gain transforms the chunk in place, CpalOutputStream      *)
(* reads it.  The driver calls the stages one after the other, so a call   *)
(* that has to wait for the Slot is a call that is not enabled, and the    *)
(* acquire, the work and the release at the end of a process call are one  *)
(* step.                                                                   *)

\* Result<T, Error>
Ok(v) == [ok |-> TRUE, value |-> v]
Err(e) == [ok |-> FALSE, value |-> e]

\* the stages, and the record of the last call made on one of them
Stages == {"wav", "sine", "gain", "cpal"}
\* (acquired: the call was granted a Payload; tagged: what it decided about
\* the chunk it emitted; phase: the phase of the stage when it was called)
Call(stage, op, result, acquired, tagged) ==
    [stage |-> stage, op |-> op, result |-> result, acquired |-> acquired,
     tagged |-> tagged, phase |-> phase[stage]]
NoCall ==
    [stage |-> "none", op |-> "none", result |-> Ok("none"),
     acquired |-> FALSE, tagged |-> None, phase |-> "none"]

\* struct Info of the audio format
Info(sample_rate, channels, bits_per_sample, num_frames) ==
    [sample_rate |-> sample_rate, channels |-> channels,
     bits_per_sample |-> bits_per_sample, num_frames |-> num_frames]

\* the port requirements a stage reports
PortRequirements_new_reader_to_payload(min) ==
    [in_port |-> "Reader", out_port |-> "Payload", min |-> min]
PortRequirements_new_in_place(min) ==
    [in_port |-> "None", out_port |-> "InPlace", min |-> min]
PortRequirements_sink(min, preferred) ==
    [in_port |-> "Payload", out_port |-> "None", min |-> min,
     preferred |-> preferred]

\* acquire_write / acquire_read of the databus Slot when the call does not
\* have to wait: the Payload new_payload builds
Slot_granted_payload(is_write) ==
    Payload_new(Unwrap(buffer), unwrap_or_default(payload_metadata), is_write)

\* Drop of the Payload at the end of the call: release puts buffer and
\* metadata back, stores the state and wakes the peer
Slot_hand_back(p) ==
    /\ buffer' = Some(p.data)
    /\ payload_metadata' = Some(p.metadata)
    /\ state' = release_state(p.is_write)
    /\ notified' = AtomicWaker_wake(IF p.is_write THEN consumer_waker
                                    ELSE producer_waker)
    /\ UNCHANGED <<variant, consumer_waker, producer_waker, pc, payload,
                   local, cycles, exited, histVars>>

\* a call that returns without touching the Slot
Slot_untouched == UNCHANGED <<variant, slotVars, taskVars, histVars>>

(* ------------------------ WavDecoder (decoder/wav.rs) ------------------ *)
\* a WAV file: the 44-byte header with the data chunk at offset 36, then
\* the data; a truncated file is shorter than its header
WavFile(truncated, riff, channels, n) ==
    [truncated |-> truncated, riff |-> riff, channels |-> channels,
     bits_per_sample |-> 8, sample_rate |-> 1000,
     data |-> [i \in 1..n |-> i]]

\* the same file with 16-bit samples
WavFile16(n) == [WavFile(FALSE, TRUE, 1, n) EXCEPT !.bits_per_sample = 16]

\* a truncated file, one without the RIFF tag, one with zero channels, the
\* well-formed 8-bit files with 0..MaxData bytes of data and a 16-bit file
\* of one frame
WavFiles ==
    {WavFile(TRUE, TRUE, 1, 0), WavFile(FALSE, FALSE, 1, 1),
     WavFile(FALSE, TRUE, 0, 1), WavFile16(2)}
       \cup {WavFile(FALSE, TRUE, 1, n) : n \in 0..MaxData}

WavDecoder_new ==
    [info |-> None, data_start |-> 0, current_position |-> 0,
     header_parsed |-> FALSE, bytes_per_frame |-> 0,
     is_first_chunk |-> TRUE, port_requirements |-> None]

\* parse_header: the decoder afterwards and the result
WavDecoder_parse_header(self, file) ==
    IF file.truncated
    THEN [self |-> self, result |-> Err("DeviceError")]
    ELSE IF ~file.riff
    THEN [self |-> self, result |-> Err("InvalidParameter")]
    ELSE LET found == [self EXCEPT !.data_start = DataChunkPos + 8] IN
         IF file.channels = 0 \/ file.bits_per_sample = 0
               \/ file.sample_rate = 0
         THEN [self |-> found, result |-> Err("InvalidParameter")]
         ELSE LET bytes_per_frame ==
                     (file.bits_per_sample \div 8) * file.channels
                  data_chunk_size == Len(file.data)
                  num_frames ==
                     IF bytes_per_frame > 0 /\ data_chunk_size > 0
                     THEN Some(data_chunk_size \div bytes_per_frame)
                     ELSE None
              IN [self |-> [found EXCEPT
                               !.bytes_per_frame = bytes_per_frame,
                               !.info = Some(Info(file.sample_rate,
                                                  file.channels,
                                                  file.bits_per_sample,
                                                  num_frames)),
                               !.header_parsed = TRUE],
                  result |-> Ok("parsed")]

WavDecoder_calculate_min_payload_size(self) ==
    IF IsSome(self.info)
    THEN ((Unwrap(self.info).bits_per_sample \div 8)
             * Unwrap(self.info).channels) * MinFrames
    ELSE DefaultMinPayload

WavDecoder_initialize(file) ==
    /\ src = "wav"
    /\ panic = "none"
    /\ IF ~wav.header_parsed
       THEN LET r == WavDecoder_parse_header(wav, file) IN
            /\ reader' = file
            /\ IF r.result.ok
               THEN LET req == PortRequirements_new_reader_to_payload(
                                  WavDecoder_calculate_min_payload_size(
                                     r.self))
                    IN /\ wav' = [r.self EXCEPT
                                     !.port_requirements = Some(req)]
                       /\ ret' = Call("wav", "initialize", Ok(req), FALSE, None)
                       /\ phase' = [phase EXCEPT !["wav"] = "Initialized"]
               ELSE /\ wav' = r.self
                    /\ ret' = Call("wav", "initialize", r.result, FALSE, None)
                    /\ phase' = phase
       ELSE /\ ret' = Call("wav", "initialize", Err("InvalidState"), FALSE,
                        None)
            /\ UNCHANGED <<reader, wav, phase>>
    /\ Slot_untouched
    /\ UNCHANGED <<panic, src, enc, writer, sine, gain, cpal, emitted, sent>>

WavDecoder_get_port_requirements ==
    /\ src = "wav"
    /\ panic = "none"
    /\ IF IsSome(wav.port_requirements)
       THEN /\ ret' = Call("wav", "get_port_requirements",
                           Ok(Unwrap(wav.port_requirements)), FALSE, None)
            /\ panic' = panic
       ELSE /\ ret' = Call("wav", "get_port_requirements",
                           Err("panic"), FALSE, None)
            /\ panic' = "must called after initialize"
    /\ Slot_untouched
    /\ UNCHANGED <<src, enc, writer, reader, wav, sine,
                   gain, cpal, emitted, sent, phase>>

\* reset: every field goes back to its value in new
WavDecoder_reset ==
    /\ src = "wav"
    /\ panic = "none"
    /\ wav' = WavDecoder_new
    /\ ret' = Call("wav", "reset", Ok("reset"), FALSE, None)
    /\ phase' = [phase EXCEPT !["wav"] = "Uninitialized"]
    /\ Slot_untouched
    /\ UNCHANGED <<panic, src, enc, writer, reader, sine,
                   gain, cpal, emitted, sent>>

\* MockReader: seek(SeekFrom::Start(pos)) then read(buf) of len bytes: the
\* bytes read, none when pos is at or past the end of the file
MockReader_read(file, pos, len) ==
    LET end == HeaderLen + Len(file.data)
        position == Min(pos, end)
        bytes_to_read == Min(end - position, len)
    IN [i \in 1..bytes_to_read |-> file.data[position - HeaderLen + i]]

\* what the reader behind the in_port does on one process call: the seek
\* fails, the read fails, the read returns a single byte although the file
\* has more (embedded_io::Read allows a short read), or it fills the
\* destination as MockReader does
ReadOutcomes == {"seek_error", "read_error", "short", "full"}

\* reader.read(&mut payload[..len]) under the outcome
Reader_read(file, pos, len, outcome) ==
    MockReader_read(file, pos, IF outcome = "short" THEN Min(len, 1) ELSE len)

position_tag_LastAsMiddle(is_first_chunk, is_last) ==
    IF is_first_chunk /\ is_last
    THEN [position |-> "Single", result |-> Ok("Eof"), is_first_chunk |-> TRUE]
    ELSE IF is_first_chunk
    THEN [position |-> "First", result |-> Ok("Fine"), is_first_chunk |-> FALSE]
    ELSE [position |-> "Middle", result |-> Ok("Fine"), is_first_chunk |-> FALSE]

\* match (self.is_first_chunk, is_last): the tag of the chunk, the result of
\* process and is_first_chunk afterwards
position_tag(is_first_chunk, is_last) ==
    IF is_first_chunk /\ is_last
    THEN [position |-> "Single", result |-> Ok("Eof"), is_first_chunk |-> TRUE]
    ELSE IF is_first_chunk
    THEN [position |-> "First", result |-> Ok("Fine"), is_first_chunk |-> FALSE]
    ELSE IF is_last
    THEN [position |-> "Last", result |-> Ok("Eof"), is_first_chunk |-> FALSE]
    ELSE [position |-> "Middle", result |-> Ok("Fine"), is_first_chunk |-> FALSE]

\* the phase a successful process leaves the stage in
phase_after(result) == IF result = Ok("Eof") THEN "Stopped" ELSE "Running"

WavDecoder_process(outcome) ==
    /\ src = "wav"
    /\ panic = "none"
    /\ Len(emitted) < MaxEmit
    /\ IF ~wav.header_parsed
       THEN /\ ret' = Call("wav", "process", Err("InvalidState"), FALSE, None)
            /\ Slot_untouched
            /\ UNCHANGED <<panic, wav, emitted, sent, phase>>
       ELSE IF outcome = "seek_error"
       THEN /\ ret' = Call("wav", "process", Err("DeviceError"), FALSE, None)
            /\ Slot_untouched
            /\ UNCHANGED <<panic, wav, emitted, sent, phase>>
       ELSE /\ state = "Empty"
            /\ LET read_pos == wav.data_start + wav.current_position
                   granted == Slot_granted_payload(TRUE)
                   max_read == Len(granted.data)
                   aligned_read ==
                      IF wav.bytes_per_frame > 0
                      THEN (max_read \div wav.bytes_per_frame)
                              * wav.bytes_per_frame
                      ELSE max_read
                   bytes == Reader_read(reader, read_pos, aligned_read,
                                        outcome)
                   bytes_read == Len(bytes)
                   current_position == wav.current_position + bytes_read
                   num_frames == Unwrap(wav.info).num_frames
                   is_last ==
                      \/ bytes_read < aligned_read
                      \/ /\ IsSome(num_frames)
                         /\ current_position
                               >= Unwrap(num_frames) * wav.bytes_per_frame
                   tag == position_tag(wav.is_first_chunk, is_last)
                   written ==
                      [granted EXCEPT
                          !.data = [i \in 1..Len(@) |->
                                       IF i <= bytes_read THEN bytes[i]
                                       ELSE @[i]],
                          !.metadata.valid_length =
                              clamp_valid_length(bytes_read, granted.data),
                          !.metadata.position = tag.position]
               IN IF aligned_read = 0
                  THEN /\ panic' = "Payload buffer too small for even one frame"
                       /\ Slot_hand_back(granted)
                       /\ ret' = Call("wav", "process", Err("panic"), TRUE,
                                      None)
                       /\ UNCHANGED <<wav, emitted, sent, phase>>
                  ELSE IF outcome = "read_error"
                  THEN /\ Slot_hand_back(granted)
                       /\ ret' = Call("wav", "process", Err("DeviceError"),
                                      TRUE, None)
                       /\ UNCHANGED <<panic, wav, emitted, sent, phase>>
                  ELSE /\ Slot_hand_back(written)
                       /\ wav' = [wav EXCEPT
                                     !.current_position = current_position,
                                     !.is_first_chunk = tag.is_first_chunk]
                       /\ ret' = Call("wav", "process", tag.result, TRUE,
                                      Some([is_first |-> wav.is_first_chunk,
                                            is_last |-> is_last,
                                            position |-> tag.position]))
                       /\ emitted' = Append(emitted, tag.position)
                       /\ sent' = Append(sent, written.metadata.valid_length)
                       /\ phase' = [phase EXCEPT
                                       !["wav"] = phase_after(tag.result)]
                       /\ panic' = panic
    /\ UNCHANGED <<src, enc, writer, reader, sine, gain, cpal>>

(* ---------------- SineWaveGenerator (generator/sine_wave.rs) ----------- *)
\* new(sample_rate, channels, bits_per_sample, ..) and set_total_samples
SineWaveGenerator_new(bits_per_sample, total_samples) ==
    [info |-> Info(1000, 1, bits_per_sample, None), current_sample |-> 0,
     is_first_chunk |-> TRUE, total_samples |-> total_samples]

TotalSamples == {None} \cup {Some(n) : n \in 0..MaxTotal}

\* the generators: 8-bit ones of every length and an endless 16-bit one
SineWaveGenerators ==
    {SineWaveGenerator_new(8, t) : t \in TotalSamples}
       \cup {SineWaveGenerator_new(16, None)}

\* the byte of the sample at sample_idx; the waveform is reduced to two
\* values around the 8-bit midpoint
SineWaveGenerator_generate_sample(sample_idx) == 128 + (sample_idx % 2)

\* the loop for _ in 0..max_frames: a frame is written, then the end is
\* tested, then current_sample advances; the result is current_sample and
\* bytes_written after the loop and whether it ended
RECURSIVE SineWaveGenerator_frames(_, _, _, _, _, _)
SineWaveGenerator_frames(k, max_frames, bytes_per_frame, current_sample, bytes_written, total_samples) ==
    IF k = max_frames
    THEN [current_sample |-> current_sample,
          bytes_written |-> bytes_written, ended |-> FALSE]
    ELSE IF IsSome(total_samples) /\ current_sample >= Unwrap(total_samples)
    THEN [current_sample |-> current_sample,
          bytes_written |-> bytes_written + bytes_per_frame, ended |-> TRUE]
    ELSE SineWaveGenerator_frames(k + 1, max_frames, bytes_per_frame,
                                  current_sample + 1,
                                  bytes_written + bytes_per_frame,
                                  total_samples)

\* a tagging that never says First
SineWaveGenerator_position_tag_NoFirst(ended, is_first_chunk) ==
    IF ended /\ is_first_chunk
    THEN [position |-> "Single", result |-> Ok("Eof"), is_first_chunk |-> FALSE]
    ELSE IF ended
    THEN [position |-> "Last", result |-> Ok("Eof"), is_first_chunk |-> FALSE]
    ELSE [position |-> "Middle", result |-> Ok("Fine"), is_first_chunk |-> FALSE]

\* match (ended, self.is_first_chunk)
SineWaveGenerator_position_tag(ended, is_first_chunk) ==
    IF ended /\ is_first_chunk
    THEN [position |-> "Single", result |-> Ok("Eof"), is_first_chunk |-> FALSE]
    ELSE IF ended
    THEN [position |-> "Last", result |-> Ok("Eof"), is_first_chunk |-> FALSE]
    ELSE IF is_first_chunk
    THEN [position |-> "First", result |-> Ok("Fine"), is_first_chunk |-> FALSE]
    ELSE [position |-> "Middle", result |-> Ok("Fine"), is_first_chunk |-> FALSE]

SineWaveGenerator_process ==
    /\ src = "sine"
    /\ panic = "none"
    /\ Len(emitted) < MaxEmit
    /\ state = "Empty"
    /\ LET granted == Slot_granted_payload(TRUE)
           bytes_per_sample == sine.info.bits_per_sample \div 8
           bytes_per_frame == bytes_per_sample * sine.info.channels
           max_frames == Len(granted.data) \div bytes_per_frame
           loop == SineWaveGenerator_frames(0, max_frames, bytes_per_frame,
                                            sine.current_sample, 0,
                                            sine.total_samples)
           tag == SineWaveGenerator_position_tag(loop.ended,
                                                 sine.is_first_chunk)
           written ==
              [granted EXCEPT
                  !.data = [i \in 1..Len(@) |->
                               IF i <= loop.bytes_written
                               THEN IF (i - 1) % bytes_per_sample = 0
                                    THEN SineWaveGenerator_generate_sample(
                                            sine.current_sample
                                               + ((i - 1) \div bytes_per_frame))
                                    ELSE 0
                               ELSE @[i]],
                  !.metadata.valid_length =
                      clamp_valid_length(loop.bytes_written, granted.data),
                  !.metadata.position = tag.position]
       IN IF max_frames = 0
          THEN /\ Slot_hand_back(granted)
               /\ ret' = Call("sine", "process", Err("BufferEmpty"), TRUE,
                              None)
               /\ UNCHANGED <<sine, emitted, sent, phase>>
          ELSE /\ Slot_hand_back(written)
               /\ sine' = [sine EXCEPT
                              !.current_sample = loop.current_sample,
                              !.is_first_chunk = tag.is_first_chunk]
               /\ ret' = Call("sine", "process", tag.result, TRUE,
                              Some([is_first |-> sine.is_first_chunk,
                                    is_last |-> loop.ended,
                                    position |-> tag.position]))
               /\ emitted' = Append(emitted, tag.position)
               /\ sent' = Append(sent, written.metadata.valid_length)
               /\ phase' = [phase EXCEPT !["sine"] = phase_after(tag.result)]
    /\ UNCHANGED <<panic, src, enc, writer, reader, wav, gain, cpal>>

(* --------------------------- Gain (transformer/gain.rs) ---------------- *)
\* the formats a driver hands to initialize as upstream_info
UpstreamInfos ==
    {None, Some(Info(1000, 1, 8, None)), Some(Info(1000, 1, 12, None))}

Gain_new_fixed_q16_16(fixed_gain) ==
    [info |-> None, fixed_gain |-> fixed_gain, port_requirements |-> None]

\* the gain 2.0 in Q16.16
FixedGains == {2 * FIXED_POINT_ONE}

Clamp(x, lo, hi) == IF x < lo THEN lo ELSE IF x > hi THEN hi ELSE x

\* impl Sample for u8: apply_gain_fixed (>> 16 is the floor of the quotient)
u8_apply_gain_fixed(sample, fixed_gain) ==
    LET centered == sample - 128
        result == ((centered * fixed_gain) \div FIXED_POINT_ONE) + 128
    IN Clamp(result, 0, 255)

Gain_initialize(upstream_info) ==
    /\ panic = "none"
    /\ IF upstream_info = None
       THEN /\ ret' = Call("gain", "initialize", Err("InvalidParameter"),
                           FALSE, None)
            /\ UNCHANGED <<gain, phase>>
       ELSE LET info == Unwrap(upstream_info) IN
            IF info.bits_per_sample \notin {8, 16, 24, 32}
            THEN /\ ret' = Call("gain", "initialize", Err("Unsupported"),
                                FALSE, None)
                 /\ UNCHANGED <<gain, phase>>
            ELSE LET req == PortRequirements_new_in_place(
                               info.bits_per_sample \div 8)
                 IN /\ gain' = [gain EXCEPT
                                   !.info = Some(info),
                                   !.port_requirements = Some(req)]
                    /\ ret' = Call("gain", "initialize", Ok(req), FALSE,
                                   None)
                    /\ phase' = [phase EXCEPT !["gain"] = "Initialized"]
    /\ Slot_untouched
    /\ UNCHANGED <<panic, src, enc, writer, reader, wav,
                   sine, cpal, emitted, sent>>

Gain_get_port_requirements ==
    /\ panic = "none"
    /\ IF IsSome(gain.port_requirements)
       THEN /\ ret' = Call("gain", "get_port_requirements",
                           Ok(Unwrap(gain.port_requirements)), FALSE, None)
            /\ panic' = panic
       ELSE /\ ret' = Call("gain", "get_port_requirements", Err("panic"),
                           FALSE, None)
            /\ panic' = "must be called after initialize"
    /\ Slot_untouched
    /\ UNCHANGED <<src, enc, writer, reader, wav, sine,
                   gain, cpal, emitted, sent, phase>>

\* acquire_transform is granted on a Full Slot and its Payload goes back to
\* a Full Slot
Slot_transform_back(p) ==
    /\ buffer' = Some(p.data)
    /\ payload_metadata' = Some(p.metadata)
    /\ UNCHANGED <<variant, state, consumer_waker, producer_waker, taskVars,
                   histVars>>

Gain_process ==
    /\ panic = "none"
    /\ state = "Full"
    /\ LET granted == Slot_granted_payload(FALSE) IN
       IF gain.info = None
       THEN /\ Slot_transform_back(granted)
            /\ ret' = Call("gain", "process", Err("NotInitialized"), TRUE,
                           None)
            /\ phase' = phase
       ELSE /\ Slot_transform_back(
                  [granted EXCEPT
                      !.data = [i \in 1..Len(@) |->
                                   u8_apply_gain_fixed(@[i],
                                                       gain.fixed_gain)]])
            /\ ret' = Call("gain", "process", Ok("Fine"), TRUE, None)
            /\ phase' = [phase EXCEPT !["gain"] = phase_after(Ok("Fine"))]
    /\ UNCHANGED <<panic, src, enc, writer, reader, wav,
                   sine, gain, cpal, emitted, sent>>

(* ---------------- CpalOutputStream (stream/cpal_output.rs) ------------- *)
\* Info::get_alignment_bytes: the bytes of one frame
Info_get_alignment_bytes(info) ==
    ((info.bits_per_sample * info.channels) \div 8) % 256

\* struct Config; the sample type T is u8, so SIZE and size_of::<T>() are 1
Config(rb_capacity) ==
    [rb_capacity |-> rb_capacity, latency_ms |-> 1, frames_per_process |-> 64]
SIZE == 1

\* the configurations: the default capacity and one that is too small
Configs == {Config(None), Config(Some(0))}

Config_get_rb_min_capacity_bytes(config, info) ==
    ((config.latency_ms * info.sample_rate) \div 1000)
       * Info_get_alignment_bytes(info)

\* (min_cap_bytes as f64 * 1.1) as usize is the floor of 11 * min / 10
Config_get_rb_capacity_bytes(config, info) ==
    LET min_cap_bytes == Config_get_rb_min_capacity_bytes(config, info) IN
    IF IsSome(config.rb_capacity)
    THEN IF Unwrap(config.rb_capacity) < (min_cap_bytes * 11) \div 10
         THEN Err("CapacityTooSmallError")
         ELSE Ok(Unwrap(config.rb_capacity))
    ELSE Ok(min_cap_bytes * 2)

\* rb_producer is the producer end of the ring buffer: its capacity and the
\* number of samples in it; stream is the cpal stream, whose callback owns
\* the consumer end; flush_channel is the Channel<bool, 1>: whether a
\* message is in it; playing: stream.play() has been called; held is the
\* suspended future of process: the Payload it holds and the samples of it
\* pushed so far
CpalOutputStream_new(config) ==
    [stream |-> None, rb_producer |-> None, rb_consumer |-> None,
     flush_channel |-> FALSE, info |-> None, state |-> "Uninitialized",
     config |-> config, playing |-> FALSE, held |-> None]

\* flush: send(true) returns once the channel has taken the message, so the
\* call waits while the channel is full; nothing else of the stage changes
CpalOutputStream_flush ==
    /\ panic = "none"
    /\ cpal.held = None
    /\ ~cpal.flush_channel
    /\ cpal' = [cpal EXCEPT !.flush_channel = TRUE]
    /\ ret' = Call("cpal", "flush", Ok("flushed"), FALSE, None)
    /\ Slot_untouched
    /\ UNCHANGED <<panic, src, enc, writer, reader, wav,
                   sine, gain, emitted, sent, phase>>

\* initialize; device_ok: build_output_stream succeeds
CpalOutputStream_initialize(upstream_info, device_ok) ==
    /\ panic = "none"
    /\ cpal.held = None
    /\ IF cpal.state # "Uninitialized"
       THEN /\ ret' = Call("cpal", "initialize", Err("InvalidState"), FALSE,
                           None)
            /\ UNCHANGED <<cpal, phase>>
       ELSE IF upstream_info = None
       THEN /\ ret' = Call("cpal", "initialize", Err("InvalidParameter"),
                           FALSE, None)
            /\ UNCHANGED <<cpal, phase>>
       ELSE LET info == Unwrap(upstream_info)
                with_info == [cpal EXCEPT !.info = Some(info)]
                rb_capacity_bytes ==
                   Config_get_rb_capacity_bytes(cpal.config, info)
            IN
            IF ~rb_capacity_bytes.ok
            THEN /\ cpal' = with_info
                 /\ ret' = Call("cpal", "initialize",
                                Err("InvalidParameter"), FALSE, None)
                 /\ phase' = phase
            ELSE LET rb_capacity_samples == rb_capacity_bytes.value \div SIZE
                     min_samples_to_fill ==
                        Config_get_rb_min_capacity_bytes(cpal.config, info)
                           \div SIZE
                     with_rb ==
                        [with_info EXCEPT
                            !.rb_producer =
                                Some([capacity |-> rb_capacity_samples,
                                      len |-> min_samples_to_fill]),
                            !.rb_consumer = None]
                 IN
                 IF min_samples_to_fill > rb_capacity_samples
                 THEN /\ cpal' = with_info
                      /\ ret' = Call("cpal", "initialize",
                                     Err("BufferFull"), FALSE, None)
                      /\ phase' = phase
                 ELSE IF ~device_ok
                 THEN /\ cpal' = with_rb
                      /\ ret' = Call("cpal", "initialize",
                                     Err("DeviceError"), FALSE, None)
                      /\ phase' = phase
                 ELSE /\ cpal' = [with_rb EXCEPT
                                     !.stream = Some("stream"),
                                     !.state = "Initialized"]
                      /\ ret' = Call("cpal", "initialize",
                                     Ok(PortRequirements_sink(
                                           SIZE,
                                           SIZE * cpal.config
                                                     .frames_per_process)),
                                     FALSE, None)
                      /\ phase' = [phase EXCEPT !["cpal"] = "Initialized"]
    /\ Slot_untouched
    /\ UNCHANGED <<panic, src, enc, writer, reader, wav,
                   sine, gain, emitted, sent>>

\* BaseStream::start
CpalOutputStream_start ==
    /\ panic = "none"
    /\ cpal.held = None
    /\ IF cpal.state \notin {"Initialized", "Stopped"}
       THEN /\ ret' = Call("cpal", "start", Err("InvalidState"), FALSE, None)
            /\ UNCHANGED <<cpal, phase>>
       ELSE IF IsSome(cpal.stream)
       THEN /\ cpal' = [cpal EXCEPT !.state = "Running", !.playing = TRUE]
            /\ ret' = Call("cpal", "start", Ok("started"), FALSE, None)
            /\ phase' = [phase EXCEPT !["cpal"] = "Running"]
       ELSE /\ ret' = Call("cpal", "start", Err("NotInitialized"), FALSE,
                           None)
            /\ UNCHANGED <<cpal, phase>>
    /\ Slot_untouched
    /\ UNCHANGED <<panic, src, enc, writer, reader, wav,
                   sine, gain, emitted, sent>>

\* what start, stop, pause and resume leave alone
stream_call_frame ==
    /\ Slot_untouched
    /\ UNCHANGED <<panic, src, enc, writer, reader, wav,
                   sine, gain, emitted, sent>>

\* BaseStream::stop: no test of the state
CpalOutputStream_stop ==
    /\ panic = "none"
    /\ cpal.held = None
    /\ IF IsSome(cpal.stream)
       THEN /\ cpal' = [cpal EXCEPT !.state = "Stopped", !.playing = FALSE]
            /\ ret' = Call("cpal", "stop", Ok("stopped"), FALSE, None)
            /\ phase' = [phase EXCEPT !["cpal"] = "Stopped"]
       ELSE /\ ret' = Call("cpal", "stop", Err("NotInitialized"), FALSE,
                           None)
            /\ UNCHANGED <<cpal, phase>>
    /\ stream_call_frame

\* BaseStream::pause
CpalOutputStream_pause ==
    /\ panic = "none"
    /\ cpal.held = None
    /\ IF cpal.state # "Running"
       THEN /\ ret' = Call("cpal", "pause", Err("InvalidState"), FALSE, None)
            /\ UNCHANGED <<cpal, phase>>
       ELSE IF IsSome(cpal.stream)
       THEN /\ cpal' = [cpal EXCEPT !.state = "Paused", !.playing = FALSE]
            /\ ret' = Call("cpal", "pause", Ok("paused"), FALSE, None)
            /\ phase' = [phase EXCEPT !["cpal"] = "Paused"]
       ELSE /\ ret' = Call("cpal", "pause", Err("NotInitialized"), FALSE,
                           None)
            /\ UNCHANGED <<cpal, phase>>
    /\ stream_call_frame

\* a resume that does not test the state
CpalOutputStream_resume_Unchecked ==
    /\ panic = "none"
    /\ cpal.held = None
    /\ IF IsSome(cpal.stream)
       THEN /\ cpal' = [cpal EXCEPT !.state = "Running", !.playing = TRUE]
            /\ ret' = Call("cpal", "resume", Ok("resumed"), FALSE, None)
            /\ phase' = [phase EXCEPT !["cpal"] = "Running"]
       ELSE /\ ret' = Call("cpal", "resume", Err("NotInitialized"), FALSE,
                           None)
            /\ UNCHANGED <<cpal, phase>>
    /\ stream_call_frame

\* BaseStream::resume
CpalOutputStream_resume ==
    /\ panic = "none"
    /\ cpal.held = None
    /\ IF cpal.state # "Paused"
       THEN /\ ret' = Call("cpal", "resume", Err("InvalidState"), FALSE,
                           None)
            /\ UNCHANGED <<cpal, phase>>
       ELSE IF IsSome(cpal.stream)
       THEN /\ cpal' = [cpal EXCEPT !.state = "Running", !.playing = TRUE]
            /\ ret' = Call("cpal", "resume", Ok("resumed"), FALSE, None)
            /\ phase' = [phase EXCEPT !["cpal"] = "Running"]
       ELSE /\ ret' = Call("cpal", "resume", Err("NotInitialized"), FALSE,
                           None)
            /\ UNCHANGED <<cpal, phase>>
    /\ stream_call_frame

\* match payload.metadata.position: Last and Single end the stream
is_terminal_LastOnly(position) == position = "Last"

is_terminal(position) == position \in {"Last", "Single"}

\* for sample in samples { producer.push(sample).await }: the samples of
\* the chunk are pushed one after the other from the one at index pushed;
\* a push on a full ring buffer waits for the callback to pop, and the
\* future is then suspended holding the Payload.  When the last sample is
\* in, the tag of the chunk decides between Fine and Eof and the Payload is
\* dropped.  (push fails only when the consumer end has been dropped; the
\* stream that owns it lives in the stage, so it is not during process.)
CpalOutputStream_push(p, pushed) ==
    LET samples == Len(p.data) \div SIZE
        rb == Unwrap(cpal.rb_producer)
        room == rb.capacity - rb.len
        now == Min(samples - pushed, room)
        eof == is_terminal(p.metadata.position)
        result == IF eof THEN Ok("Eof") ELSE Ok("Fine")
    IN IF pushed + now = samples
       THEN /\ Slot_hand_back(p)
            /\ cpal' = [cpal EXCEPT
                           !.rb_producer = Some([rb EXCEPT !.len = @ + now]),
                           !.state = IF eof THEN "Stopped" ELSE @,
                           !.held = None]
            /\ ret' = Call("cpal", "process", result, TRUE,
                           Some([pushed |-> samples,
                                 valid_length |-> p.metadata.valid_length,
                                 position |-> p.metadata.position]))
            /\ phase' = [phase EXCEPT !["cpal"] = phase_after(result)]
       ELSE /\ state' = "Reading"
            /\ buffer' = None
            /\ payload_metadata' = None
            /\ notified' = AtomicWaker_wake(producer_waker)
            /\ cpal' = [cpal EXCEPT
                           !.rb_producer = Some([rb EXCEPT !.len = @ + now]),
                           !.held = Some([payload |-> p,
                                          pushed |-> pushed + now])]
            /\ ret' = Call("cpal", "process", Ok("Pending"), TRUE, None)
            /\ UNCHANGED <<variant, consumer_waker, producer_waker, pc,
                           payload, local, cycles, exited, histVars, phase>>

\* process, from the call to its return or to its first suspension on the
\* ring buffer
CpalOutputStream_process ==
    /\ panic = "none"
    /\ cpal.held = None
    /\ IF cpal.state # "Running"
       THEN /\ ret' = Call("cpal", "process", Err("InvalidState"), FALSE,
                           None)
            /\ Slot_untouched
            /\ UNCHANGED <<cpal, phase>>
       ELSE IF cpal.rb_producer = None
       THEN /\ ret' = Call("cpal", "process", Err("NotInitialized"), FALSE,
                           None)
            /\ Slot_untouched
            /\ UNCHANGED <<cpal, phase>>
       ELSE /\ state = "Full"
            /\ CpalOutputStream_push(Slot_granted_payload(FALSE), 0)
    /\ UNCHANGED <<panic, src, enc, writer, reader, wav,
                   sine, gain, emitted, sent>>

\* the suspended process is polled again once the ring buffer has room
CpalOutputStream_process_resume ==
    /\ panic = "none"
    /\ IsSome(cpal.held)
    /\ Unwrap(cpal.rb_producer).len < Unwrap(cpal.rb_producer).capacity
    /\ CpalOutputStream_push(Unwrap(cpal.held).payload,
                             Unwrap(cpal.held).pushed)
    /\ UNCHANGED <<panic, src, enc, writer, reader, wav,
                   sine, gain, emitted, sent>>

\* the audio callback of a playing stream, for one sample: a flush request
\* clears the ring buffer, otherwise a sample is popped when there is one
output_data_fn ==
    /\ panic = "none"
    /\ IsSome(cpal.stream)
    /\ cpal.playing
    /\ IF cpal.flush_channel
       THEN cpal' = [cpal EXCEPT
                        !.flush_channel = FALSE,
                        !.rb_producer = Some([Unwrap(@) EXCEPT !.len = 0])]
       ELSE /\ Unwrap(cpal.rb_producer).len > 0
            /\ cpal' = [cpal EXCEPT
                           !.rb_producer =
                               Some([Unwrap(@) EXCEPT !.len = @ - 1])]
    /\ Slot_untouched
    /\ UNCHANGED <<panic, src, enc, writer, reader, wav,
                   sine, gain, ret, emitted, sent, phase>>

(* ------------------ two producers sharing one Slot --------------------- *)
(* acquire_write takes &self, so two tasks can call it on the same Slot.    *)
(* Two producers and one consumer run on a databus Slot with a buffer.      *)
CrowdInit ==
    /\ variant = "databus"
    /\ buffer = Some(Zeros(1))
    /\ state = Slot_new_state(buffer)
    /\ payload_metadata = None
    /\ consumer_waker = None
    /\ producer_waker = None
    /\ capacity = 1
    /\ InitTasks
    /\ NoStages

CrowdNext ==
    \/ \E t \in AllTasks : acquire_call(t, MaxCycles)
    \/ \E t \in AllTasks : executor_poll(t)
    \/ \E t \in Consumers : Slot_acquire_read(t)
    \/ \E t \in CrowdProducers : Slot_acquire_write(t)
    \/ \E t \in AllTasks : Payload_drop(t, "normal")
    \/ \E t \in AllTasks : Slot_release(t)

CrowdSpec == CrowdInit /\ [][CrowdNext]_vars

(* ------------------------ WavEncoder (encoder/wav.rs) ------------------ *)
\* the MockWriter of the encoder's tests: a Vec<u8> and a position
MockWriter_new == [data |-> <<>>, position |-> 0]

\* Write::write: at or past the end the bytes are appended to the Vec, inside
\* it they overwrite and what is left over is appended
MockWriter_write(w, buf) ==
    LET pos == w.position
        len == Len(w.data)
        bytes_to_overwrite == Min(len - pos, Len(buf))
    IN IF pos >= len
       THEN [data |-> w.data \o buf, position |-> pos + Len(buf)]
       ELSE [data |-> [i \in 1..len |->
                          IF i > pos /\ i <= pos + bytes_to_overwrite
                          THEN buf[i - pos] ELSE w.data[i]]
                      \o SubSeq(buf, bytes_to_overwrite + 1, Len(buf)),
             position |-> pos + Len(buf)]

\* Seek::seek(SeekFrom::Start(p))
MockWriter_seek(w, p) == [w EXCEPT !.position = p]

\* u32::to_le_bytes, u16::to_le_bytes
to_le_bytes(n, width) == [i \in 1..width |-> (n \div (256 ^ (i - 1))) % 256]

\* u32::from_le_bytes
from_le_bytes(b) ==
    b[1] + 256 * b[2] + 256 * 256 * b[3] + 256 * 256 * 256 * b[4]

\* b"RIFF", b"WAVE", b"fmt ", b"data"
RIFF == <<82, 73, 70, 70>>
WAVE == <<87, 65, 86, 69>>
FMT == <<102, 109, 116, 32>>
DATA == <<100, 97, 116, 97>>

WavEncoder_new ==
    [info |-> None, encoded_samples |-> 0, header_written |-> FALSE,
     data_size_pos |-> 0, bytes_per_frame |-> 0, awaiting |-> FALSE]

\* the record of a call on the encoder
EncCall(op, result) ==
    [stage |-> "enc", op |-> op, result |-> result, acquired |-> FALSE,
     tagged |-> None, phase |-> "none"]

\* the formats handed to set_info: 8-bit mono, 16-bit mono, and one with
\* sample_rate 0
EncInfos ==
    {Info(1000, 1, 8, None), Info(1000, 1, 16, None), Info(0, 1, 8, None)}

\* what the calls on the encoder leave alone besides the Slot
enc_call_frame ==
    UNCHANGED <<panic, src, reader, wav, sine, gain, cpal, emitted, phase>>

WavEncoder_set_info(info) ==
    /\ panic = "none"
    /\ ~enc.awaiting
    /\ IF info.channels = 0 \/ info.bits_per_sample = 0 \/ info.sample_rate = 0
       THEN /\ ret' = EncCall("set_info", Err("InvalidParameter"))
            /\ enc' = enc
       ELSE /\ enc' = [enc EXCEPT
                          !.bytes_per_frame =
                              (info.bits_per_sample \div 8) * info.channels,
                          !.info = Some(info)]
            /\ ret' = EncCall("set_info", Ok("set"))
    /\ Slot_untouched
    /\ enc_call_frame
    /\ UNCHANGED <<writer, sent>>

\* the 44 bytes write_header builds
WavEncoder_header(info) ==
    RIFF \o to_le_bytes(0, 4) \o WAVE \o FMT \o to_le_bytes(16, 4)
       \o to_le_bytes(1, 2) \o to_le_bytes(info.channels, 2)
       \o to_le_bytes(info.sample_rate, 4)
       \o to_le_bytes(info.sample_rate * info.channels
                         * (info.bits_per_sample \div 8), 4)
       \o to_le_bytes(info.channels * (info.bits_per_sample \div 8), 2)
       \o to_le_bytes(info.bits_per_sample, 2)
       \o DATA \o to_le_bytes(0, 4)

\* write_header: the encoder and the writer afterwards
WavEncoder_write_header(self, w) ==
    IF self.info = None
    THEN [result |-> Err("InvalidParameter"), self |-> self, writer |-> w]
    ELSE [result |-> Ok("written"),
          self |-> [self EXCEPT !.header_written = TRUE,
                                !.data_size_pos = 40],
          writer |-> MockWriter_write(w, WavEncoder_header(Unwrap(self.info)))]

\* an update that takes the length of the whole file for the RIFF size
WavEncoder_update_header_sizes_FileLen(self, w) ==
    LET data_size == self.encoded_samples * self.bytes_per_frame
        file_size == HeaderLen + data_size
        w1 == MockWriter_write(MockWriter_seek(w, 4),
                               to_le_bytes(file_size, 4))
        w2 == MockWriter_write(MockWriter_seek(w1, self.data_size_pos),
                               to_le_bytes(data_size, 4))
    IN MockWriter_seek(w2, HeaderLen + data_size)

\* update_header_sizes: the writer afterwards (file_size as u32 and
\* data_size as u32 keep a value below 2^32, which every size here is)
WavEncoder_update_header_sizes(self, w) ==
    LET data_size == self.encoded_samples * self.bytes_per_frame
        file_size == DataChunkPos + data_size
        w1 == MockWriter_write(MockWriter_seek(w, 4),
                               to_le_bytes(file_size, 4))
        w2 == MockWriter_write(MockWriter_seek(w1, self.data_size_pos),
                               to_le_bytes(data_size, 4))
    IN MockWriter_seek(w2, HeaderLen + data_size)

\* process_payload_to_writer from consumer.acquire() on, once the Slot is
\* Full: the whole frames of the buffer are written, the InPayload is
\* dropped (the Slot goes to Empty and the producer is woken)
WavEncoder_write_payload(self, w) ==
    LET data == Unwrap(buffer)
        data_len == Len(data)
        aligned_len ==
           IF self.bytes_per_frame > 0
           THEN (data_len \div self.bytes_per_frame) * self.bytes_per_frame
           ELSE data_len
    IN /\ state' = "Empty"
       /\ notified' = AtomicWaker_wake(producer_waker)
       /\ IF aligned_len = 0
          THEN /\ ret' = EncCall("process", Err("BufferEmpty"))
               /\ enc' = [self EXCEPT !.awaiting = FALSE]
               /\ writer' = w
               /\ sent' = sent
          ELSE /\ ret' = EncCall("process", Ok("written"))
               /\ writer' = MockWriter_write(w, SubSeq(data, 1, aligned_len))
               /\ enc' = [self EXCEPT
                             !.encoded_samples =
                                 @ + (aligned_len \div self.bytes_per_frame),
                             !.awaiting = FALSE]
               /\ sent' = Append(sent, aligned_len)
       /\ UNCHANGED <<variant, buffer, payload_metadata, consumer_waker,
                      producer_waker, pc, payload, local, cycles, exited,
                      histVars>>

\* process with OutPort::Writer, from the call to its return or to its
\* suspension in consumer.acquire(); in_is_payload: the in_port is
\* InPort::Payload
WavEncoder_process(in_is_payload) ==
    /\ panic = "none"
    /\ ~enc.awaiting
    /\ Len(sent) < MaxEncWrites
    /\ enc_call_frame
    /\ IF ~in_is_payload
       THEN /\ ret' = EncCall("process", Err("InvalidParameter"))
            /\ Slot_untouched
            /\ UNCHANGED <<enc, writer, sent>>
       ELSE LET header == IF enc.header_written
                          THEN [result |-> Ok("written"), self |-> enc,
                                writer |-> writer]
                          ELSE WavEncoder_write_header(enc, writer)
            IN IF ~header.result.ok
               THEN /\ ret' = EncCall("process", header.result)
                    /\ Slot_untouched
                    /\ UNCHANGED <<enc, writer, sent>>
               ELSE IF state = "Full"
               THEN WavEncoder_write_payload(header.self, header.writer)
               ELSE /\ consumer_waker' = AtomicWaker_register(consumer_waker, "consumer")
                    /\ enc' = [header.self EXCEPT !.awaiting = TRUE]
                    /\ writer' = header.writer
                    /\ ret' = EncCall("process", Ok("Pending"))
                    /\ UNCHANGED <<variant, state, buffer, payload_metadata,
                                   producer_waker, taskVars, histVars, sent>>

\* the suspended process is polled again once the Slot is Full
WavEncoder_process_resume ==
    /\ panic = "none"
    /\ enc.awaiting
    /\ state = "Full"
    /\ enc_call_frame
    /\ WavEncoder_write_payload(enc, writer)

WavEncoder_finalize ==
    /\ panic = "none"
    /\ ~enc.awaiting
    /\ writer' = IF enc.header_written
                 THEN WavEncoder_update_header_sizes(enc, writer)
                 ELSE writer
    /\ ret' = EncCall("finalize", Ok("finalized"))
    /\ Slot_untouched
    /\ enc_call_frame
    /\ UNCHANGED <<enc, sent>>

\* producer.acquire().await.fill(v) of the encoder's tests: the OutPayload
\* is granted on an Empty Slot, filled and dropped
test_producer_fill(v) ==
    /\ panic = "none"
    /\ state = "Empty"
    /\ IsSome(buffer)
    /\ buffer' = Some([i \in 1..Len(Unwrap(buffer)) |-> v])
    /\ state' = "Full"
    /\ notified' = AtomicWaker_wake(consumer_waker)
    /\ UNCHANGED <<variant, payload_metadata, consumer_waker, producer_waker,
                   pc, payload, local, cycles, exited, histVars, panic,
                   stageVars>>

EncoderInit ==
    /\ variant = "driver"
    /\ buffer \in {Some(Zeros(n)) : n \in 1..MaxEncCap}
    /\ state = DriverSlot_new_state(buffer)
    /\ payload_metadata = None
    /\ consumer_waker = None
    /\ producer_waker = None
    /\ capacity = Len(Unwrap(buffer))
    /\ InitTasks
    /\ src = None
    /\ reader = None
    /\ wav = None
    /\ sine = None
    /\ gain = None
    /\ cpal = None
    /\ ret = NoCall
    /\ emitted = <<>>
    /\ sent = <<>>
    /\ phase = None
    /\ enc = WavEncoder_new
    /\ writer = MockWriter_new

\* the format is set before the first process call, as in the tests
EncoderNext ==
    \/ /\ ~enc.header_written
       /\ \E info \in EncInfos : WavEncoder_set_info(info)
    \/ \E v \in {1, 2} : test_producer_fill(v)
    \/ \E in_is_payload \in BOOLEAN : WavEncoder_process(in_is_payload)
    \/ WavEncoder_process_resume
    \/ WavEncoder_finalize

EncoderSpec == EncoderInit /\ [][EncoderNext]_vars

(* ------------------------- the pipeline -------------------------------- *)
PipelineInit ==
    /\ variant = "databus"
    /\ buffer \in {Some(Zeros(n)) : n \in Caps}
    /\ state = Slot_new_state(buffer)
    /\ payload_metadata = None
    /\ consumer_waker = None
    /\ producer_waker = None
    /\ capacity = Len(Unwrap(buffer))
    /\ InitTasks
    /\ src \in {"wav", "sine"}
    /\ reader = WavFile(TRUE, TRUE, 1, 0)
    /\ wav = WavDecoder_new
    /\ sine \in IF src = "sine" THEN SineWaveGenerators
                 ELSE {SineWaveGenerator_new(8, None)}
    /\ gain \in {Gain_new_fixed_q16_16(g) : g \in FixedGains}
    /\ cpal \in {CpalOutputStream_new(c) : c \in Configs}
    /\ ret = NoCall
    /\ emitted = <<>>
    /\ sent = <<>>
    /\ enc = None
    /\ writer = None
    /\ phase = [s \in Stages |->
                   IF s = "sine" THEN "Initialized" ELSE "Uninitialized"]

PipelineNext ==
    \/ \E file \in WavFiles : WavDecoder_initialize(file)
    \/ WavDecoder_get_port_requirements
    \/ \E outcome \in ReadOutcomes : WavDecoder_process(outcome)
    \/ SineWaveGenerator_process
    \/ \E upstream_info \in UpstreamInfos : Gain_initialize(upstream_info)
    \/ Gain_get_port_requirements
    \/ Gain_process
    \/ \E upstream_info \in UpstreamInfos, device_ok \in BOOLEAN :
          CpalOutputStream_initialize(upstream_info, device_ok)
    \/ CpalOutputStream_start
    \/ CpalOutputStream_process
    \/ CpalOutputStream_process_resume
    \/ output_data_fn

PipelineSpec == PipelineInit /\ [][PipelineNext]_vars

(* ---------------- the decoder feeding the sink, with reset ------------- *)
(* A WavDecoder on a well-formed 8-bit file and a CpalOutputStream on one   *)
(* Slot, driven through the whole lifecycle: initialize, process, reset and *)
(* flush, with a reader that may return short reads.                        *)
\* the files have two bytes of data or more, so that a read of one byte
\* leaves data behind
StreamFiles == {WavFile(FALSE, TRUE, 1, n) : n \in 2..MaxStreamData}

StreamInit ==
    /\ variant = "databus"
    /\ buffer \in {Some(Zeros(n)) : n \in 1..MaxStreamCap}
    /\ state = Slot_new_state(buffer)
    /\ payload_metadata = None
    /\ consumer_waker = None
    /\ producer_waker = None
    /\ capacity = Len(Unwrap(buffer))
    /\ InitTasks
    /\ src = "wav"
    /\ reader = WavFile(TRUE, TRUE, 1, 0)
    /\ wav = WavDecoder_new
    /\ sine = SineWaveGenerator_new(8, None)
    /\ gain \in {Gain_new_fixed_q16_16(g) : g \in FixedGains}
    /\ cpal = CpalOutputStream_new(Config(None))
    /\ ret = NoCall
    /\ emitted = <<>>
    /\ sent = <<>>
    /\ enc = None
    /\ writer = None
    /\ phase = [s \in Stages |->
                   IF s = "sine" THEN "Initialized" ELSE "Uninitialized"]

StreamNext ==
    \/ \E file \in StreamFiles : WavDecoder_initialize(file)
    \/ \E outcome \in {"short", "full"} : WavDecoder_process(outcome)
    \/ WavDecoder_reset
    \/ CpalOutputStream_initialize(Some(Info(1000, 1, 8, None)), TRUE)
    \/ CpalOutputStream_start
    \/ CpalOutputStream_process
    \/ CpalOutputStream_process_resume
    \/ CpalOutputStream_flush
    \/ output_data_fn

StreamSpec == StreamInit /\ [][StreamNext]_vars


(* ============================== claims ================================= *)
\* the order of events of one hand-off cycle
Cycle == <<"acquire_write", "release_write", "acquire_read", "release_read">>
Count(event) == Cardinality({i \in DOMAIN log : log[i] = event})
\* the task has been granted the Slot and has not yet stored the next state
Granted(t) == pc[t] \in {"wake", "take", "build", "hold", "restore", "store",
                         "test_len", "test_pos", "test_done"}

\* C1: in every reachable state at most one Payload is outstanding: never a
\* write Payload and a read Payload together, never two of one role
C1_AtMostOnePayload ==
    /\ Cardinality({t \in Tasks : IsSome(payload[t])}) <= 1
    /\ \A t \in Producers : IsSome(payload[t]) => Unwrap(payload[t]).is_write
    /\ \A t \in Consumers : IsSome(payload[t]) => ~Unwrap(payload[t]).is_write

\* the consumer holds a read Payload while the producer, in its second
\* acquire_write, has polled, failed and is parked
C1_Witness ==
    /\ IsSome(payload["consumer"])
    /\ pc["producer"] = "pending"
    /\ cycles["producer"] = 2

\* C2: a task that waits in acquire_read while the Slot is Full (in
\* acquire_write while it is Empty) is eventually granted
C2_NoLostWakeup ==
    /\ \A t \in Consumers :
         (pc[t] \in {"register", "pending"} /\ state = "Full")
            ~> (pc[t] = "hold")
    /\ \A t \in Producers :
         (pc[t] \in {"register", "pending"} /\ state = "Empty")
            ~> (pc[t] = "hold")

\* C3: the grants and releases of the databus Slot strictly alternate
\* acquire_write, release_write, acquire_read, release_read: Writing is never
\* granted twice without a read cycle in between
C3_StrictAlternation ==
    variant = "databus" =>
        \A i \in DOMAIN log : log[i] = Cycle[((i - 1) % 4) + 1]

\* the producer, parked in its second acquire_write, was woken by the wake of
\* acquire_read, polled again while the state is Reading and is about to
\* register again
C3_Witness ==
    /\ variant = "databus"
    /\ state = "Reading"
    /\ log = <<"acquire_write", "release_write", "acquire_read">>
    /\ producer_waker = Some("producer")
    /\ pc["producer"] = "register"

\* C4: a step of acquire or release changes the state of the databus Slot
\* only along Empty->Writing (acquire_write), Writing->Full (release of a
\* write Payload), Full->Reading (acquire_read), Reading->Empty (release of a
\* read Payload); a poll that finds another state suspends and leaves it
C4_LegalTransitions ==
    [][variant = "databus" =>
         \A t \in Tasks :
            pc'[t] # pc[t] =>
               /\ \/ state' = state
                  \/ /\ t \in Producers /\ pc[t] = "poll"
                     /\ state = "Empty" /\ state' = "Writing"
                  \/ /\ t \in Producers /\ pc[t] = "store"
                     /\ state = "Writing" /\ state' = "Full"
                  \/ /\ t \in Consumers /\ pc[t] = "poll"
                     /\ state = "Full" /\ state' = "Reading"
                  \/ /\ t \in Consumers /\ pc[t] = "store"
                     /\ state = "Reading" /\ state' = "Empty"
               /\ (pc[t] = "poll" /\ t \in Producers /\ state # "Empty")
                     => (state' = state /\ pc'[t] = "register")
               /\ (pc[t] = "poll" /\ t \in Consumers /\ state # "Full")
                     => (state' = state /\ pc'[t] = "register")
               /\ pc[t] = "store" => state' # state]_vars

\* the four edges have been taken in order and the consumer, polling the
\* Empty Slot in its second acquire_read, has suspended
C4_Witness ==
    /\ variant = "databus"
    /\ log = Cycle
    /\ state = "Empty"
    /\ cycles["consumer"] = 2
    /\ pc["consumer"] = "pending"

\* C5: the read Payload the databus Slot hands out has the full capacity of
\* the bound buffer and holds exactly the bytes the preceding write Payload
\* held when it was dropped; every written chunk is read once
C5_NoLossNoDuplication ==
    [][variant = "databus" =>
         \A t \in Consumers :
            (pc[t] = "build" /\ pc'[t] = "hold") =>
               /\ IsSome(lastWritten)
               /\ Unwrap(payload'[t]).data = Unwrap(lastWritten).data
               /\ Len(Unwrap(payload'[t]).data) = capacity
               /\ capacity >= 1
               /\ Count("release_write") = Count("acquire_read")]_vars

\* the consumer, in its second read cycle, holds a chunk with a written byte
C5_Witness ==
    /\ variant = "databus"
    /\ cycles["consumer"] = 2
    /\ pc["consumer"] = "hold"
    /\ Unwrap(payload["consumer"]).data[1] = 1
    /\ Count("release_read") = 1

\* C6: in the concurrency test, a Payload the reader holds exposes exactly
\* [10, 20, 30], valid_length 3, position Single, and is held only after the
\* writer's release
C6_TestReaderSeesChunk ==
    \A t \in Consumers :
        IsSome(payload[t]) =>
            LET p == Unwrap(payload[t]) IN
            /\ p.metadata.valid_length = TestValidLength
            /\ SubSeq(p.data, 1, p.metadata.valid_length) = TestData
            /\ p.metadata.position = "Single"
            /\ Count("release_write") = 1

\* the reader polled before the writer's release, parked, was woken and
\* holds the Payload
C6_Witness ==
    /\ IsSome(payload["consumer"])
    /\ consumer_waker = Some("consumer")
    /\ pc["consumer"] = "hold"

\* C7: every Payload of the databus Slot is released exactly once however its
\* scope is left: the state is Writing (Reading) exactly from the grant of a
\* write (read) Payload to the store of its release, each grant has one
\* release, and after the release the buffer and the metadata the Payload
\* held are back in the Slot
C7_ReleasedExactlyOnce ==
    variant = "databus" =>
        /\ \A t \in Producers :
              /\ Count("acquire_write") - Count("release_write")
                    = IF Granted(t) THEN 1 ELSE 0
              /\ (state = "Writing") = Granted(t)
        /\ \A t \in Consumers :
              /\ Count("acquire_read") - Count("release_read")
                    = IF Granted(t) THEN 1 ELSE 0
              /\ (state = "Reading") = Granted(t)
        /\ state = "Full" =>
              /\ IsSome(lastWritten)
              /\ buffer = Some(Unwrap(lastWritten).data)
              /\ payload_metadata = Some(Unwrap(lastWritten).metadata)
        /\ (state = "Empty" /\ Count("release_read") > 0) =>
              /\ IsSome(buffer)
              /\ IsSome(payload_metadata)

\* the producer left its scope by an error and the release has stored Full
C7_Witness ==
    /\ variant = "databus"
    /\ exited["producer"] = "error"
    /\ pc["producer"] = "release_wake"
    /\ state = "Full"
    /\ exited["consumer"] = "none"
    /\ Count("release_read") = 1

\* C8: the Payload acquire_write returns carries the default metadata
C8_WriteMetadataCleared ==
    [][variant = "databus" =>
         \A t \in Producers :
            (pc[t] = "build" /\ pc'[t] = "hold") =>
               Unwrap(payload'[t]).metadata = DefaultMetadata]_vars

\* C9: the metadata a read Payload of the databus Slot exposes is the
\* metadata the preceding write Payload held when it was dropped
C9_ReadSeesWrittenMetadata ==
    [][variant = "databus" =>
         \A t \in Consumers :
            (pc[t] = "build" /\ pc'[t] = "hold") =>
               /\ IsSome(lastWritten)
               /\ Unwrap(payload'[t]).metadata
                     = Unwrap(lastWritten).metadata]_vars

\* the consumer holds, in its second read cycle, a chunk tagged Last with
\* valid_length equal to the capacity
C9_Witness ==
    /\ variant = "databus"
    /\ cycles["consumer"] = 2
    /\ pc["consumer"] = "hold"
    /\ Unwrap(payload["consumer"]).metadata = Metadata_new("Last", capacity)

\* C10: set_buffer on a Slot whose state is not Empty fails explicitly and
\* changes neither the state, the buffer nor the stored metadata
C10_SetBufferFailsExplicitly ==
    [][((\E b \in Buffers : Slot_set_buffer(b) \/ DriverSlot_set_buffer(b))
          /\ state # "Empty")
        => (panic' # "none"
            /\ UNCHANGED <<state, buffer, payload_metadata>>)]_vars

\* C11: while no buffer is bound to the Slot, no acquire is granted: the
\* state is neither Writing nor Reading and no task holds a Payload
C11_NoGrantWithoutBuffer ==
    capacity = 0 =>
        /\ state \notin {"Writing", "Reading"}
        /\ \A t \in Tasks : payload[t] = None

\* C12: a freshly constructed Slot is Empty when a buffer was supplied and
\* NoBuffer when none was
C12_NewSlotState ==
    (InitTasks /\ payload_metadata = None /\ consumer_waker = None
        /\ producer_waker = None)
    => (IF IsSome(buffer) THEN state = "Empty" ELSE state = "NoneBuffer")

C14_SetValidLengthClamps ==
    [][\A t \in Tasks, n \in 0..(MaxCap + 1) :
          Payload_set_valid_length(t, n) =>
             LET p == Unwrap(payload[t])
                 q == Unwrap(payload'[t])
             IN /\ q.metadata.valid_length = Min(n, Len(p.data))
                /\ q.metadata.position = p.metadata.position
                /\ q.data = p.data]_vars

\* the producer holds a Payload whose valid_length has been set to the
\* capacity, after a byte was written and the position was tagged
C14_Witness ==
    /\ variant = "databus"
    /\ pc["producer"] = "hold"
    /\ capacity >= 1
    /\ Unwrap(payload["producer"]).metadata = Metadata_new("Last", capacity)
    /\ Unwrap(payload["producer"]).data[1] = 1

\* C15: a source stage's process tags the chunk and returns by the table
\* (first, last) -> Single, Eof; (first, not last) -> First, Fine, clearing
\* is_first_chunk; (not first, last) -> Last, Eof; (not first, not last)
\* -> Middle, Fine; Eof is returned exactly with the tags Last and Single
C15_PositionTagging ==
    (ret.op = "process" /\ ret.stage \in {"wav", "sine"}
        /\ IsSome(ret.tagged))
    => LET t == Unwrap(ret.tagged)
           eof == ret.result = Ok("Eof")
           fine == ret.result = Ok("Fine")
           is_first_chunk == IF ret.stage = "wav" THEN wav.is_first_chunk
                             ELSE sine.is_first_chunk
       IN /\ (t.is_first /\ t.is_last) => (t.position = "Single" /\ eof)
          /\ (t.is_first /\ ~t.is_last) =>
                (t.position = "First" /\ fine /\ ~is_first_chunk)
          /\ (~t.is_first /\ t.is_last) => (t.position = "Last" /\ eof)
          /\ (~t.is_first /\ ~t.is_last) => (t.position = "Middle" /\ fine)
          /\ eof <=> t.position \in {"Last", "Single"}
          /\ eof \/ fine

\* the decoder has emitted First, Middle and Last, and the last process, not
\* on the first chunk and on the last one, returned Eof
C15_Witness ==
    /\ ret.stage = "wav"
    /\ ret.op = "process"
    /\ ret.tagged = Some([is_first |-> FALSE, is_last |-> TRUE,
                          position |-> "Last"])
    /\ ret.result = Ok("Eof")
    /\ emitted = <<"First", "Middle", "Last">>

\* C16: the tags a source stage has emitted are a prefix of [Single] or of
\* First, Middle*, Last: nothing before First, nothing after the terminal tag
C16_TagSequence ==
    \/ emitted = <<>>
    \/ emitted = <<"Single">>
    \/ /\ emitted[1] = "First"
       /\ \A i \in 2..Len(emitted) :
             \/ emitted[i] = "Middle"
             \/ emitted[i] = "Last" /\ i = Len(emitted)

\* C17: when the stream of the source stage is empty from the start (a
\* parsed WAV file with no data bytes, a generator with total_samples = 0),
\* process returns Eof without acquiring a Payload: no chunk is emitted and
\* the Slot does not become Full
C17_EmptyStreamYieldsNoPayload ==
    (\/ src = "wav" /\ wav.header_parsed /\ reader.data = <<>>
     \/ src = "sine" /\ sine.total_samples = Some(0))
    => /\ emitted = <<>>
       /\ state # "Full"
       /\ (ret.op = "process" /\ ret.stage = src) =>
             (ret.result = Ok("Eof") /\ ~ret.acquired)

\* C18: process on a stage that is Uninitialized or Stopped returns
\* InvalidState and acquires no Payload
C18_ProcessOutsideLifecycle ==
    (ret.op = "process" /\ ret.phase \in {"Uninitialized", "Stopped"})
    => (ret.result = Err("InvalidState") /\ ~ret.acquired)

\* C19: get_port_requirements on a stage whose initialize has not succeeded
\* returns the error InvalidState and does not panic
C19_PortRequirementsBeforeInitialize ==
    (ret.op = "get_port_requirements" /\ ret.phase = "Uninitialized")
    => (ret.result = Err("InvalidState") /\ panic = "none")

\* C20: an initialize that returns an error leaves the stage as it was
C20_FailedInitializeLeavesStage ==
    [][/\ ((\E file \in WavFiles : WavDecoder_initialize(file))
             /\ ~ret'.result.ok) => wav' = wav
       /\ ((\E upstream_info \in UpstreamInfos :
                Gain_initialize(upstream_info))
             /\ ~ret'.result.ok) => gain' = gain
       /\ ((\E upstream_info \in UpstreamInfos, device_ok \in BOOLEAN :
                CpalOutputStream_initialize(upstream_info, device_ok))
             /\ ~ret'.result.ok) => cpal' = cpal]_vars

\* the format a stage reports downstream: get_out_info
get_out_info(stage) ==
    IF stage = "wav" THEN wav.info
    ELSE IF stage = "sine" THEN Some(sine.info)
    ELSE IF stage = "gain" THEN gain.info
    ELSE None

\* the port requirements a stage holds
port_requirements(stage) ==
    IF stage = "wav" THEN wav.port_requirements
    ELSE IF stage = "gain" THEN gain.port_requirements
    ELSE None

\* C21: once initialize has succeeded, no process and no initialize call
\* changes the stage's output format or its port requirements, and an
\* initialize on the initialized stage returns InvalidState
C21_OutInfoFixedAfterInitialize ==
    [][\A stage \in {"wav", "gain", "cpal"} :
          (phase[stage] # "Uninitialized" /\ ret'.stage = stage
              /\ ret'.op \in {"process", "initialize"})
          => /\ get_out_info(stage)' = get_out_info(stage)
             /\ port_requirements(stage)' = port_requirements(stage)
             /\ (ret'.op = "initialize" /\ ret'.phase # "Uninitialized")
                   => ret'.result = Err("InvalidState")]_vars

\* C22: a process call that follows reset or flush on a stage whose
\* initialize had succeeded is accepted without a new initialize (it does
\* not return InvalidState), the progress of the stream so far is discarded,
\* and a chunk the call emits is tagged as the first of a stream
C22_ResetFlushReturnToInitialized ==
    [][(ret.op \in {"reset", "flush"} /\ ret.phase # "Uninitialized"
           /\ ret'.op = "process" /\ ret'.stage = ret.stage /\ ret' # ret)
       => /\ ret'.result # Err("InvalidState")
          /\ (ret.stage = "wav") => wav.current_position = 0
          /\ (ret.stage = "wav" /\ IsSome(ret'.tagged))
                => Unwrap(ret'.tagged).position \in {"First", "Single"}]_vars

\* C23: no process call of a source stage fails or aborts because the
\* buffer of the connected Slot is smaller than the stage needs: such a
\* Slot is refused when the pipeline is built, so process neither panics
\* nor returns BufferEmpty
C23_NoMismatchFailureInProcess ==
    (ret.op = "process" /\ ret.stage \in {"wav", "sine"})
    => /\ panic = "none"
       /\ ret.result \notin {Err("panic"), Err("BufferEmpty")}

\* C24: the Payload new_payload builds while the Slot holds no stored
\* metadata (the first one of a fresh Slot) carries valid_length 0 and a
\* position that is none of the tags of real data
C24_FirstPayloadDefaultMetadata ==
    [][\A t \in Tasks :
          (variant = "databus" /\ pc[t] = "build" /\ pc'[t] = "hold"
              /\ local[t].meta = None)
          => /\ Unwrap(payload'[t]).metadata.valid_length = 0
             /\ Unwrap(payload'[t]).metadata.position \notin Position]_vars

\* C25: no process call is suspended while it holds a Payload: between
\* the calls of the stages the buffer is back in the Slot, which is Empty
\* or Full
C25_NoSuspensionWhileHolding ==
    /\ cpal.held = None
    /\ state \in {"Empty", "Full"}
    /\ IsSome(buffer)

\* C26: when the sink has consumed a chunk, it returns Eof and is Stopped
\* if the chunk is tagged Last or Single, and returns Fine and is still
\* Running if the chunk is tagged First or Middle
C26_SinkEofOnTerminalChunk ==
    [][((CpalOutputStream_process \/ CpalOutputStream_process_resume)
           /\ IsSome(ret'.tagged))
       => IF Unwrap(payload_metadata').position \in {"Last", "Single"}
          THEN ret'.result = Ok("Eof") /\ cpal'.state = "Stopped"
          ELSE /\ Unwrap(payload_metadata').position \in {"First", "Middle"}
               /\ ret'.result = Ok("Fine")
               /\ cpal'.state = "Running"]_vars

\* the sink returned Fine on earlier chunks and has just consumed the chunk
\* tagged Last: it returned Eof and is Stopped
C26_Witness ==
    /\ ret.stage = "cpal"
    /\ ret.op = "process"
    /\ ret.result = Ok("Eof")
    /\ IsSome(ret.tagged)
    /\ Unwrap(ret.tagged).position = "Last"
    /\ Len(emitted) >= 2
    /\ emitted[1] = "First"
    /\ cpal.state = "Stopped"
    /\ state = "Empty"

\* C27: whenever the Slot is Empty or Full its buffer is inside it (the
\* buffer is absent only while the state is Writing, Reading or NoBuffer),
\* so the take that follows a successful compare-exchange finds the buffer:
\* neither the expect of the driver ports nor the unwrap of new_payload
\* panics
C27_BufferPresentWhenAcquirable ==
    /\ state \in {"Empty", "Full"} => IsSome(buffer)
    /\ panic \notin {"Bug: Slot was in Empty state but buffer was None",
                     "Bug: Slot was in Full state but buffer was None",
                     "called Option::unwrap() on a None value"}

\* C28: the decoder tags the chunk it emits Last or Single exactly when
\* the chunk takes the stream to the end of the file's data: a read that
\* returns fewer bytes than asked for while data remains does not end the
\* stream, and a stream of a whole number of chunks ends on the last chunk
\* that carries data
C28_TerminalIffNoDataRemains ==
    [][((\E outcome \in ReadOutcomes : WavDecoder_process(outcome))
           /\ IsSome(ret'.tagged))
       => (Unwrap(ret'.tagged).position \in {"Last", "Single"}
              <=> wav'.current_position >= Len(reader.data))]_vars

\* C29: when process of a source stage returns an error after it acquired
\* its output Payload (DeviceError of the read, BufferEmpty), the failed
\* call delivers no chunk: it does not leave the Slot Full for the consumer
C29_FailedProcessDeliversNothing ==
    [][(((\E outcome \in ReadOutcomes : WavDecoder_process(outcome))
            \/ SineWaveGenerator_process)
           /\ ret'.acquired
           /\ ret'.result \in {Err("DeviceError"), Err("BufferEmpty")})
       => state' # "Full"]_vars

\* C30: of every chunk it consumes the sink pushes exactly the first
\* valid_length bytes to the ring buffer; bytes of the buffer beyond
\* valid_length are not forwarded
C30_SinkForwardsValidLength ==
    (ret.stage = "cpal" /\ ret.op = "process" /\ IsSome(ret.tagged))
    => Unwrap(ret.tagged).pushed * SIZE = Unwrap(ret.tagged).valid_length

(* ------------------ the driver loop of cpal_playback ------------------- *)
(* main of cpal_playback.rs: the stages are initialized in sequence, the    *)
(* stream is started, and the loop calls source.process, gain.process and   *)
(* sink.process on the one Slot until the sink returns Eof.  Every result   *)
(* is unwrapped, so the driver goes on only after an Ok.  The driver is one *)
(* task: its position is the call it made last, which ret records.  The     *)
(* audio callback runs on the device's thread.                              *)
LoopFiles == {WavFile(FALSE, TRUE, 1, n) : n \in 0..MaxData}

LoopInit ==
    /\ variant = "databus"
    /\ buffer \in {Some(Zeros(n)) : n \in 1..MaxStreamCap}
    /\ state = Slot_new_state(buffer)
    /\ payload_metadata = None
    /\ consumer_waker = None
    /\ producer_waker = None
    /\ capacity = Len(Unwrap(buffer))
    /\ InitTasks
    /\ src \in {"wav", "sine"}
    /\ reader = WavFile(TRUE, TRUE, 1, 0)
    /\ wav = WavDecoder_new
    /\ sine \in {SineWaveGenerator_new(8, Some(n)) : n \in 0..MaxTotal}
    /\ gain \in {Gain_new_fixed_q16_16(g) : g \in FixedGains}
    /\ cpal = CpalOutputStream_new(Config(None))
    /\ ret = NoCall
    /\ emitted = <<>>
    /\ sent = <<>>
    /\ enc = None
    /\ writer = None
    /\ phase = [s \in Stages |->
                   IF s = "sine" THEN "Initialized" ELSE "Uninitialized"]

\* the last call of the driver was op on stage and it returned Ok
returned_ok(stage, op) ==
    /\ ret.stage = stage
    /\ ret.op = op
    /\ ret.result.ok

\* the driver is at the top of the loop: after start, or after a sink.process
\* that returned Fine
loop_top ==
    \/ returned_ok("cpal", "start")
    \/ returned_ok("cpal", "process") /\ ret.result.value = "Fine"

\* the loop has left through break
loop_done == returned_ok("cpal", "process") /\ ret.result.value = "Eof"

\* the steps of the driver task
driver_step ==
    \/ /\ src = "wav"
       /\ ret = NoCall
       /\ \E file \in LoopFiles : WavDecoder_initialize(file)
    \/ /\ IF src = "wav" THEN returned_ok("wav", "initialize")
          ELSE ret = NoCall
       /\ Gain_initialize(get_out_info(src))
    \/ /\ returned_ok("gain", "initialize")
       /\ CpalOutputStream_initialize(get_out_info("gain"), TRUE)
    \/ /\ returned_ok("cpal", "initialize")
       /\ CpalOutputStream_start
    \/ /\ loop_top
       /\ WavDecoder_process("full")
    \/ /\ loop_top
       /\ SineWaveGenerator_process
    \/ /\ returned_ok(src, "process")
       /\ Gain_process
    \/ /\ returned_ok("gain", "process")
       /\ CpalOutputStream_process
    \/ CpalOutputStream_process_resume

LoopNext ==
    \/ driver_step
    \/ output_data_fn

LoopSpec == LoopInit /\ [][LoopNext]_vars

\* the executor runs the driver task whenever it can take a step, and the
\* device calls the audio callback of a playing stream again and again
LoopFairSpec ==
    /\ LoopSpec
    /\ WF_vars(driver_step)
    /\ WF_vars(output_data_fn)

\* C31: in the driver loop over a finite source, gain.process is called
\* right after a source.process that returned Ok and returns Ok itself; the
\* chunk the sink takes is the one the source emitted last, with its tag and
\* its valid_length; the source emits a chunk only at the top of the loop,
\* after the sink took the chunk before, and never after a terminal chunk;
\* no call fails; and the loop is eventually left, through the sink's Eof
\* on the terminal chunk, with as many chunks taken as were emitted.
C31_LoopDeliversAndTerminates ==
    /\ [][
          /\ (ret'.stage = "gain" /\ ret'.op = "process" /\ ret' # ret)
                => (returned_ok(src, "process") /\ ret'.result.ok)
          /\ (ret'.stage = "cpal" /\ ret'.op = "process"
                 /\ IsSome(ret'.tagged))
                => (/\ Unwrap(ret'.tagged).position = emitted[Len(emitted)]
                    /\ Unwrap(ret'.tagged).valid_length = sent[Len(sent)])
          /\ (emitted' # emitted)
                => (/\ loop_top
                    /\ \A i \in 1..Len(emitted) : ~is_terminal(emitted[i]))
          /\ ret'.result.ok
          /\ panic' = "none"
       ]_vars
    /\ <>(/\ loop_done
          /\ Len(emitted) > 0
          /\ is_terminal(emitted[Len(emitted)])
          /\ Unwrap(ret.tagged).position = emitted[Len(emitted)])

\* the loop has ended after the chunks First, Middle and Last went through
C31_Witness ==
    /\ loop_done
    /\ emitted = <<"First", "Middle", "Last">>
    /\ cpal.state = "Stopped"

(* --------------------- the sine generator on its own ------------------- *)
(* test_sine_wave_generator_process: a generator writes into a Slot and the *)
(* test takes every chunk out with drop(slot.acquire_read().await).  The    *)
(* generators are the 8-bit and the 16-bit mono ones, endless or with       *)
(* set_total_samples(Some(n)).                                              *)
SineInit ==
    /\ variant = "databus"
    /\ buffer \in {Some(Zeros(n)) : n \in 1..MaxSineCap}
    /\ state = Slot_new_state(buffer)
    /\ payload_metadata = None
    /\ consumer_waker = None
    /\ producer_waker = None
    /\ capacity = Len(Unwrap(buffer))
    /\ InitTasks
    /\ src = "sine"
    /\ reader = WavFile(TRUE, TRUE, 1, 0)
    /\ wav = WavDecoder_new
    /\ sine \in {SineWaveGenerator_new(b, t) : b \in {8, 16}, t \in TotalSamples}
    /\ gain \in {Gain_new_fixed_q16_16(g) : g \in FixedGains}
    /\ cpal = CpalOutputStream_new(Config(None))
    /\ ret = NoCall
    /\ emitted = <<>>
    /\ sent = <<>>
    /\ enc = None
    /\ writer = None
    /\ phase = [s \in Stages |->
                   IF s = "sine" THEN "Initialized" ELSE "Uninitialized"]

\* drop(slot.acquire_read().await)
test_drop_acquire_read ==
    /\ panic = "none"
    /\ state = "Full"
    /\ Slot_hand_back(Slot_granted_payload(FALSE))
    /\ UNCHANGED <<panic, stageVars>>

SineNext ==
    \/ SineWaveGenerator_process
    \/ test_drop_acquire_read

SineSpec == SineInit /\ [][SineNext]_vars

\* the bytes of one frame of the generator
sine_frame_size == (sine.info.bits_per_sample \div 8) * sine.info.channels

RECURSIVE SumSeq(_)
SumSeq(q) == IF q = <<>> THEN 0 ELSE q[1] + SumSeq(Tail(q))

C33_FiniteSineEmitsNFrames ==
    (/\ IsSome(sine.total_samples)
     /\ capacity >= sine_frame_size
     /\ emitted # <<>>
     /\ is_terminal(emitted[Len(emitted)])
     /\ \A i \in 1..(Len(emitted) - 1) : ~is_terminal(emitted[i]))
    => SumSeq(sent) \div sine_frame_size = Unwrap(sine.total_samples)

(* ---------------------- the lifecycle of the stream -------------------- *)
(* A CpalOutputStream behind a WavDecoder, with every call of BaseElement   *)
(* and BaseStream made in every state.                                      *)
LifecycleInit ==
    /\ variant = "databus"
    /\ buffer = Some(Zeros(1))
    /\ state = Slot_new_state(buffer)
    /\ payload_metadata = None
    /\ consumer_waker = None
    /\ producer_waker = None
    /\ capacity = Len(Unwrap(buffer))
    /\ InitTasks
    /\ src = "wav"
    /\ reader = WavFile(TRUE, TRUE, 1, 0)
    /\ wav = WavDecoder_new
    /\ sine = SineWaveGenerator_new(8, None)
    /\ gain \in {Gain_new_fixed_q16_16(g) : g \in FixedGains}
    /\ cpal \in {CpalOutputStream_new(c) : c \in Configs}
    /\ ret = NoCall
    /\ emitted = <<>>
    /\ sent = <<>>
    /\ enc = None
    /\ writer = None
    /\ phase = [s \in Stages |->
                   IF s = "sine" THEN "Initialized" ELSE "Uninitialized"]

LifecycleNext ==
    \/ \E file \in StreamFiles : WavDecoder_initialize(file)
    \/ WavDecoder_process("full")
    \/ \E upstream_info \in UpstreamInfos, device_ok \in BOOLEAN :
          CpalOutputStream_initialize(upstream_info, device_ok)
    \/ CpalOutputStream_start
    \/ CpalOutputStream_stop
    \/ CpalOutputStream_pause
    \/ CpalOutputStream_resume
    \/ CpalOutputStream_process
    \/ CpalOutputStream_process_resume
    \/ output_data_fn

LifecycleSpec == LifecycleInit /\ [][LifecycleNext]_vars

\* the states in which a call is accepted
accepted_in(op) ==
    IF op = "initialize" THEN {"Uninitialized"}
    ELSE IF op = "start" THEN {"Initialized", "Stopped"}
    ELSE IF op = "pause" THEN {"Running"}
    ELSE {"Paused"}

\* C34: initialize succeeds only in Uninitialized, start only in
\* Initialized or Stopped, pause only in Running, resume only in Paused; in
\* any other state the call returns InvalidState (NotInitialized only when
\* there is no stream) and the state stays as it was; and the state becomes
\* Running only by a successful start or resume
C34_StreamLifecycle ==
    [][/\ (/\ ret'.stage = "cpal"
           /\ ret'.op \in {"initialize", "start", "pause", "resume"}
           /\ (ret' # ret \/ cpal'.state # cpal.state))
          => (/\ ret'.result.ok => cpal.state \in accepted_in(ret'.op)
              /\ cpal.state \notin accepted_in(ret'.op)
                    => (/\ cpal'.state = cpal.state
                        /\ \/ ret'.result = Err("InvalidState")
                           \/ /\ ret'.result = Err("NotInitialized")
                              /\ cpal.stream = None))
       /\ (cpal'.state = "Running" /\ cpal.state # "Running")
          => (/\ ret'.stage = "cpal"
              /\ ret'.op \in {"start", "resume"}
              /\ ret'.result.ok)]_vars

\* the stream runs again after start, pause and resume
C34_Witness ==
    /\ returned_ok("cpal", "resume")
    /\ cpal.state = "Running"
    /\ cpal.playing

woken == {t \in AllTasks : ~notified[t] /\ notified'[t]}

\* C36: each role has one waker cell: a task whose poll is not granted
\* leaves its own waker in the cell of its role, in place of the waker of
\* a task of the same role parked before it, and leaves the other cell
\* alone; a step of an acquisition or of a release wakes no task but the
\* one whose waker is in the cell of the opposite role
C36_OneRegistrationPerRole ==
    [][/\ \A t \in AllTasks :
             (pc[t] = "register" /\ pc'[t] = "pending")
                => IF t \in CrowdProducers
                   THEN /\ producer_waker' = Some(t)
                        /\ consumer_waker' = consumer_waker
                   ELSE /\ consumer_waker' = Some(t)
                        /\ producer_waker' = producer_waker
       /\ Cardinality(woken) <= 1
       /\ \A t \in woken :
             \E u \in AllTasks :
                /\ pc'[u] # pc[u]
                /\ IF u \in CrowdProducers
                   THEN t \in Consumers /\ consumer_waker = Some(t)
                   ELSE t \in CrowdProducers /\ producer_waker = Some(t)]_vars

\* the second producer has registered in place of the first, which is
\* still parked and has not been woken
C36_Witness ==
    /\ pc["producer"] = "pending"
    /\ ~notified["producer"]
    /\ pc["producer2"] = "pending"
    /\ producer_waker = Some("producer2")

\* C37: set_buffer(Some(buffer)) on a Slot in NoneBuffer succeeds: it does
\* not panic, binds the buffer, stores Empty and wakes the producer parked
\* in acquire_write (whose next poll is then granted)
C37_BindBufferLater ==
    [][(/\ variant = "databus"
        /\ state = "NoneBuffer"
        /\ \E b \in Buffers : IsSome(b) /\ Slot_set_buffer(b))
       => (/\ panic' = "none"
           /\ state' = "Empty"
           /\ IsSome(buffer')
           /\ \A t \in Producers :
                 (pc[t] = "pending" /\ producer_waker = Some(t))
                    => notified'[t])]_vars

\* C38: the two steps of a poll that is not granted, the failed
\* compare-exchange and the registration that ends in Pending, leave the
\* state, the buffer and the stored metadata as they were, hand out no
\* Payload, wake nobody and leave the waker of the other role alone; the
\* registration puts the caller's waker into the cell of its own role
C38_UngrantedPollFrame ==
    [][\A t \in Tasks :
          (\/ pc[t] = "poll" /\ pc'[t] = "register"
           \/ pc[t] = "register" /\ pc'[t] = "pending")
          => /\ UNCHANGED <<state, buffer, payload_metadata, payload,
                            notified, panic>>
             /\ IF t \in Producers
                THEN /\ consumer_waker' = consumer_waker
                     /\ producer_waker'
                           = IF pc[t] = "register" THEN Some(t)
                             ELSE producer_waker
                ELSE /\ producer_waker' = producer_waker
                     /\ consumer_waker'
                           = IF pc[t] = "register" THEN Some(t)
                             ELSE consumer_waker]_vars

\* the consumer's poll was not granted on a Slot being written, on either
\* Slot, and the consumer is parked with its waker registered
C38_Witness ==
    /\ state = "Writing"
    /\ pc["consumer"] = "pending"
    /\ consumer_waker = Some("consumer")
    /\ IsSome(payload["producer"])

====
